---- MODULE Spec2Model ----
(***************************************************************************)
(* Verification model of the conversational research agent:                *)
(*   - the LangGraph state machine of backend/app/graph (entry,            *)
(*     clarification, reasoning, tool_executor, reflection, response),     *)
(*   - the per-turn load / run / save cycle of backend/app/api/v1/chat.py, *)
(*   - the text classifiers of the clarification node.                     *)
(* Strings are sequences of one-character strings, so that substring and   *)
(* word-boundary searches are computed the way the Python code computes    *)
(* them.                                                                   *)
(***************************************************************************)
EXTENDS Integers, Sequences, FiniteSets, TLC

(***************************************************************************)
(* Bounds of the model.                                                    *)
(***************************************************************************)
\* number of user messages (turns) of the session that are explored
MaxTurns ==
  3

\* supersteps LangGraph runs before it aborts a turn with GraphRecursionError
\* (the library default is 25; the turn loop is the same with a smaller one)
RecursionLimit ==
  11

\* successful tool results of the session that are explored
MaxSuccesses ==
  2

\* step events the graph of one event stream produces at most
MaxStepEvents ==
  3

\* tool-progress messages of one event stream
MaxProgress ==
  1

\* Reflection merges one in-flight turn performs at most
MaxMerges ==
  2

\* items one branch of the plan discovery finds at most
MaxFound ==
  2

\* user messages the orchestrator processes
MaxMessages ==
  6

\* searches one pass of a deep research reports at most
MaxSearches ==
  2

\* tool results merged one after the other into one accumulator
MaxMergeSteps ==
  3

\* progress messages one running tool reports
MaxReports ==
  2

\* plan edits of one planning dialogue
MaxEdits ==
  2

\* keepalive and ping events of one event stream (the timers fire for as
\* long as the graph runs)
MaxTimerEvents ==
  1

(***************************************************************************)
(* Text: the user messages of the model and the topics derived from them.  *)
(***************************************************************************)
\* every user message of the model
MessageIds ==
  {"m_ok", "m_looks_good", "m_proceed", "m_ok_remove", "m_long_yes",
   "m_maybe", "m_hvac", "m_python", "m_learn_python"}

\* the messages a user of the explored session sends
TurnMessages ==
  {"m_ok", "m_ok_remove", "m_hvac", "m_python", "m_learn_python"}

\* the characters of every text of the model
Chars ==
     "m_ok" :> <<"o", "k">>
  @@ "m_looks_good" :> <<"l", "o", "o", "k", "s", " ", "g", "o", "o", "d">>
  @@ "m_proceed" :> <<"p", "r", "o", "c", "e", "e", "d">>
  @@ "m_ok_remove" :> <<"o", "k", " ", "b", "u", "t", " ", "r", "e", "m", "o", "v", "e", " ", "p", "r", "o", "v", "i", "d", "e", "r", " ", "X">>
  @@ "m_long_yes" :> <<"y", "e", "s", " ", "t", "h", "a", "t", " ", "l", "o", "o", "k", "s", " ", "f", "i", "n", "e", " ", "t", "o", " ", "m", "e", ",", " ", "t", "h", "a", "n", "k", " ", "y", "o", "u", " ", "v", "e", "r", "y", " ", "m", "u", "c", "h", " ", "i", "n", "d", "e", "e", "d">>
  @@ "m_maybe" :> <<"h", "m", "m", " ", "m", "a", "y", "b", "e">>
  @@ "m_hvac" :> <<"H", "V", "A", "C", " ", "t", "e", "c", "h", "n", "i", "c", "i", "a", "n", " ", "t", "r", "a", "i", "n", "i", "n", "g">>
  @@ "m_python" :> <<"I", " ", "w", "a", "n", "t", " ", "a", " ", "c", "o", "u", "r", "s", "e", " ", "o", "n", " ", "P", "y", "t", "h", "o", "n", " ", "p", "r", "o", "g", "r", "a", "m", "m", "i", "n", "g">>
  @@ "m_learn_python" :> <<"I", " ", "w", "a", "n", "t", " ", "t", "o", " ", "l", "e", "a", "r", "n", " ", "a", "b", "o", "u", "t", " ", "P", "y", "t", "h", "o", "n", " ", "p", "r", "o", "g", "r", "a", "m", "m", "i", "n", "g">>
  @@ "t_ok" :> <<"O", "k">>
  @@ "t_looks_good" :> <<"L", "o", "o", "k", "s", " ", "G", "o", "o", "d">>
  @@ "t_proceed" :> <<"P", "r", "o", "c", "e", "e", "d">>
  @@ "t_ok_remove" :> <<"O", "k", " ", "B", "u", "t", " ", "R", "e", "m", "o", "v", "e", " ", "P", "r", "o", "v", "i", "d", "e", "r", " ", "X">>
  @@ "t_long_yes" :> <<"Y", "e", "s", " ", "T", "h", "a", "t", " ", "L", "o", "o", "k", "s", " ", "F", "i", "n", "e", " ", "T", "o", " ", "M", "e", ",", " ", "T", "h", "a", "n", "k", " ", "Y", "o", "u", " ", "V", "e", "r", "y", " ", "M", "u", "c", "h", " ", "I", "n", "d", "e", "e", "d">>
  @@ "t_maybe" :> <<"H", "m", "m", " ", "M", "a", "y", "b", "e">>
  @@ "t_hvac" :> <<"H", "V", "A", "C", " ", "T", "e", "c", "h", "n", "i", "c", "i", "a", "n">>
  @@ "t_python" :> <<"W", "a", "n", "t", " ", "A", " ", "C", "o", "u", "r", "s", "e", " ", "O", "n", " ", "P", "y", "t", "h", "o", "n", " ", "P", "r", "o", "g", "r", "a", "m", "m", "i", "n", "g">>
  @@ "t_learn_python" :> <<"P", "y", "t", "h", "o", "n", " ", "P", "r", "o", "g", "r", "a", "m", "m", "i", "n", "g">>

\* str.lower() on one character
LowerChar ==
  "A" :> "a"
  @@ "B" :> "b"
  @@ "C" :> "c"
  @@ "D" :> "d"
  @@ "E" :> "e"
  @@ "F" :> "f"
  @@ "G" :> "g"
  @@ "H" :> "h"
  @@ "I" :> "i"
  @@ "J" :> "j"
  @@ "K" :> "k"
  @@ "L" :> "l"
  @@ "M" :> "m"
  @@ "N" :> "n"
  @@ "O" :> "o"
  @@ "P" :> "p"
  @@ "Q" :> "q"
  @@ "R" :> "r"
  @@ "S" :> "s"
  @@ "T" :> "t"
  @@ "U" :> "u"
  @@ "V" :> "v"
  @@ "W" :> "w"
  @@ "X" :> "x"
  @@ "Y" :> "y"
  @@ "Z" :> "z"

\* characters matched by \w in the regular expressions
WordChars ==
  {"a", "b", "c", "d", "e", "f", "g", "h", "i", "j", "k", "l", "m", "n", "o", "p", "q", "r", "s", "t", "u", "v", "w", "x", "y", "z", "A", "B", "C", "D", "E", "F", "G", "H", "I", "J", "K", "L", "M", "N", "O", "P", "Q", "R", "S", "T", "U", "V", "W", "X", "Y", "Z", "0", "1", "2", "3", "4", "5", "6", "7", "8", "9", "_"}

Lower(s) ==
  [i \in 1..Len(s) |-> IF s[i] \in DOMAIN LowerChar THEN LowerChar[s[i]] ELSE s[i]]

RECURSIVE LStrip(_)
LStrip(s) ==
  IF s # <<>> /\ Head(s) = " " THEN LStrip(Tail(s)) ELSE s

RECURSIVE RStrip(_)
RStrip(s) ==
  IF s # <<>> /\ s[Len(s)] = " " THEN RStrip(SubSeq(s, 1, Len(s) - 1)) ELSE s

\* str.strip()
Strip(s) ==
  RStrip(LStrip(s))

\* p occurs in s starting at index i
MatchAt(s, p, i) ==
  /\ i >= 1
  /\ i + Len(p) - 1 <= Len(s)
  /\ \A k \in 1..Len(p) : s[i + k - 1] = p[k]

\* Python's  p in s  on strings
Contains(s, p) ==
  \E i \in 1..(Len(s) + 1) : MatchAt(s, p, i)

IsWordAt(s, i) ==
  i >= 1 /\ i <= Len(s) /\ s[i] \in WordChars

\* regex \b between s[i-1] and s[i]
WordBoundary(s, i) ==
  IsWordAt(s, i - 1) # IsWordAt(s, i)

\* re.search of a literal pattern with optional leading / trailing \b
ReSearch(pat, s) ==
  \E i \in 1..(Len(s) + 1) :
    /\ MatchAt(s, pat.p, i)
    /\ pat.lead => WordBoundary(s, i)
    /\ pat.trail => WordBoundary(s, i + Len(pat.p))

\* set(s.split()): the maximal runs of non-blank characters
SplitWords(s) ==
  { SubSeq(s, i, j) : <<i, j>> \in
      { ij \in (1..Len(s)) \X (1..Len(s)) :
          /\ ij[1] <= ij[2]
          /\ \A k \in ij[1]..ij[2] : s[k] # " "
          /\ (ij[1] = 1 \/ s[ij[1] - 1] = " ")
          /\ (ij[2] = Len(s) \/ s[ij[2] + 1] = " ") } }

(***************************************************************************)
(* clarification.py: confirmation classifier (lines 157-182).              *)
(***************************************************************************)
\* the regular expressions, with x? expanded into both alternatives
confirmation_patterns ==
  {[p |-> <<"y", "e", "s">>, lead |-> TRUE, trail |-> TRUE],
   [p |-> <<"p", "r", "o", "c", "e", "e", "d">>, lead |-> TRUE, trail |-> TRUE],
   [p |-> <<"g", "o", " ", "a", "h", "e", "a", "d">>, lead |-> TRUE, trail |-> TRUE],
   [p |-> <<"l", "o", "o", "k", "s", " ", "g", "o", "o", "d">>, lead |-> TRUE, trail |-> TRUE],
   [p |-> <<"c", "o", "n", "f", "i", "r", "m">>, lead |-> TRUE, trail |-> TRUE],
   [p |-> <<"c", "o", "n", "f", "i", "r", "m", "e", "d">>, lead |-> TRUE, trail |-> TRUE],
   [p |-> <<"s", "t", "a", "r", "t", " ", "r", "e", "s", "e", "a", "r", "c", "h">>, lead |-> TRUE, trail |-> TRUE],
   [p |-> <<"a", "p", "p", "r", "o", "v", "e">>, lead |-> TRUE, trail |-> TRUE],
   [p |-> <<"a", "p", "p", "r", "o", "v", "e", "d">>, lead |-> TRUE, trail |-> TRUE],
   [p |-> <<"o", "k">>, lead |-> TRUE, trail |-> TRUE],
   [p |-> <<"o", "k", "a", "y">>, lead |-> TRUE, trail |-> TRUE],
   [p |-> <<"p", "e", "r", "f", "e", "c", "t">>, lead |-> TRUE, trail |-> TRUE],
   [p |-> <<"g", "r", "e", "a", "t">>, lead |-> TRUE, trail |-> TRUE],
   [p |-> <<"l", "e", "t", "'", "s", " ", "g", "o">>, lead |-> TRUE, trail |-> TRUE],
   [p |-> <<"l", "e", "t", "s", " ", "g", "o">>, lead |-> TRUE, trail |-> TRUE],
   [p |-> <<"d", "o", " ", "i", "t">>, lead |-> TRUE, trail |-> TRUE],
   [p |-> <<"b", "e", "g", "i", "n">>, lead |-> TRUE, trail |-> TRUE]}

feedback_indicators ==
  {[p |-> <<"t", "a", "r", "g", "e", "t">>, lead |-> TRUE, trail |-> TRUE],
   [p |-> <<"f", "o", "c", "u", "s">>, lead |-> TRUE, trail |-> TRUE],
   [p |-> <<"r", "e", "m", "o", "v", "e">>, lead |-> TRUE, trail |-> TRUE],
   [p |-> <<"a", "d", "d">>, lead |-> TRUE, trail |-> TRUE],
   [p |-> <<"c", "h", "a", "n", "g", "e">>, lead |-> TRUE, trail |-> TRUE],
   [p |-> <<"u", "p", "d", "a", "t", "e">>, lead |-> TRUE, trail |-> TRUE],
   [p |-> <<"i", "n", "c", "l", "u", "d", "e">>, lead |-> TRUE, trail |-> TRUE],
   [p |-> <<"e", "x", "c", "l", "u", "d", "e">>, lead |-> TRUE, trail |-> TRUE],
   [p |-> <<"b", "e", "g", "i", "n", "n", "e", "r">>, lead |-> TRUE, trail |-> TRUE],
   [p |-> <<"b", "e", "g", "i", "n", "n", "e", "r", "s">>, lead |-> TRUE, trail |-> TRUE],
   [p |-> <<"s", "t", "a", "r", "t", "e", "r">>, lead |-> TRUE, trail |-> TRUE],
   [p |-> <<"s", "t", "a", "r", "t", "e", "r", "s">>, lead |-> TRUE, trail |-> TRUE],
   [p |-> <<"a", "d", "v", "a", "n", "c", "e", "d">>, lead |-> TRUE, trail |-> TRUE],
   [p |-> <<"i", "n", "t", "e", "r", "m", "e", "d", "i", "a", "t", "e">>, lead |-> TRUE, trail |-> TRUE],
   [p |-> <<"a", "u", "d", "i", "e", "n", "c">>, lead |-> TRUE, trail |-> FALSE],
   [p |-> <<"p", "r", "o", "v", "i", "d", "e", "r">>, lead |-> TRUE, trail |-> FALSE],
   [p |-> <<"c", "e", "r", "t", "i", "f">>, lead |-> TRUE, trail |-> FALSE]}

is_confirmation_pattern(message) ==
  \E pat \in confirmation_patterns : ReSearch(pat, Strip(Lower(message)))

is_short_message(message) ==
  Len(message) < 50

has_feedback_indicators(message) ==
  \E pat \in feedback_indicators : ReSearch(pat, Strip(Lower(message)))

\* variant: the feedback keywords are not consulted
is_confirmed_without_feedback_check(message) ==
  /\ is_confirmation_pattern(message)
  /\ is_short_message(message)

is_confirmed(message) ==
  /\ is_confirmation_pattern(message)
  /\ is_short_message(message)
  /\ ~has_feedback_indicators(message)

(***************************************************************************)
(* clarification.py: new-topic detection (lines 10-54).                    *)
(***************************************************************************)
new_research_indicators ==
  {<<"i", " ", "w", "a", "n", "t", " ", "t", "o">>,
   <<"w", "a", "n", "t", " ", "t", "o", " ", "r", "e", "s", "e", "a", "r", "c", "h">>,
   <<"r", "e", "s", "e", "a", "r", "c", "h", " ", "o", "n">>,
   <<"r", "e", "s", "e", "a", "r", "c", "h", " ", "a", "b", "o", "u", "t">>,
   <<"c", "o", "u", "r", "s", "e", "s", " ", "o", "n">>,
   <<"c", "o", "u", "r", "s", "e", "s", " ", "a", "b", "o", "u", "t">>,
   <<"c", "o", "u", "r", "s", "e", "s", " ", "f", "o", "r">>,
   <<"t", "r", "a", "i", "n", "i", "n", "g", " ", "o", "n">>,
   <<"t", "r", "a", "i", "n", "i", "n", "g", " ", "f", "o", "r">>,
   <<"c", "u", "r", "r", "i", "c", "u", "l", "u", "m", " ", "f", "o", "r">>,
   <<"c", "u", "r", "r", "i", "c", "u", "l", "u", "m", " ", "o", "n">>,
   <<"w", "r", "i", "t", "e", " ", "a", " ", "c", "o", "u", "r", "s", "e">>,
   <<"c", "r", "e", "a", "t", "e", " ", "a", " ", "c", "o", "u", "r", "s", "e">>,
   <<"b", "u", "i", "l", "d", " ", "a", " ", "c", "o", "u", "r", "s", "e">>,
   <<"d", "e", "v", "e", "l", "o", "p", " ", "a", " ", "c", "o", "u", "r", "s", "e">>,
   <<"l", "e", "a", "r", "n", " ", "a", "b", "o", "u", "t">>,
   <<"t", "e", "a", "c", "h", " ", "m", "e">>,
   <<"i", " ", "n", "e", "e", "d", " ", "c", "o", "u", "r", "s", "e", "s">>,
   <<"l", "o", "o", "k", "i", "n", "g", " ", "f", "o", "r", " ", "c", "o", "u", "r", "s", "e", "s">>,
   <<"f", "i", "n", "d", " ", "c", "o", "u", "r", "s", "e", "s">>}

feedback_patterns ==
  {<<"r", "e", "m", "o", "v", "e">>,
   <<"a", "d", "d", " ">>,
   <<"f", "o", "c", "u", "s", " ", "o", "n">>,
   <<"p", "r", "o", "c", "e", "e", "d">>,
   <<"y", "e", "s">>,
   <<"n", "o">>,
   <<"o", "k">>,
   <<"o", "k", "a", "y">>,
   <<"l", "o", "o", "k", "s", " ", "g", "o", "o", "d">>,
   <<"g", "o", " ", "a", "h", "e", "a", "d">>,
   <<"c", "o", "n", "f", "i", "r", "m">>,
   <<"s", "t", "a", "r", "t", " ", "r", "e", "s", "e", "a", "r", "c", "h">>,
   <<"a", "p", "p", "r", "o", "v", "e", "d">>,
   <<"i", "n", "c", "l", "u", "d", "e">>,
   <<"e", "x", "c", "l", "u", "d", "e">>,
   <<"t", "a", "r", "g", "e", "t">>,
   <<"g", "r", "e", "a", "t">>,
   <<"p", "e", "r", "f", "e", "c", "t">>,
   <<"c", "h", "a", "n", "g", "e">>}

has_research_intent(message) ==
  \E phrase \in new_research_indicators : Contains(Strip(Lower(message)), phrase)

looks_like_feedback(message) ==
  /\ \E pattern \in feedback_patterns : Contains(Strip(Lower(message)), pattern)
  /\ Len(message) < 100

\* current_industry is a text id or "None"
is_new_research_request(message, current_industry) ==
  IF has_research_intent(message) /\ ~looks_like_feedback(message)
  THEN IF current_industry # <<>>
       THEN Cardinality(SplitWords(Lower(current_industry))
                        \cap SplitWords(Strip(Lower(message)))) < 2
       ELSE TRUE
  ELSE FALSE

(***************************************************************************)
(* plan_discovery.py: _extract_clean_topic, tabulated on the texts of the  *)
(* model (each entry is the value the function returns for that text).     *)
(***************************************************************************)
extract_clean_topic ==
     "m_ok" :> "t_ok"
  @@ "m_looks_good" :> "t_looks_good"
  @@ "m_proceed" :> "t_proceed"
  @@ "m_ok_remove" :> "t_ok_remove"
  @@ "m_long_yes" :> "t_long_yes"
  @@ "m_maybe" :> "t_maybe"
  @@ "m_hvac" :> "t_hvac"
  @@ "m_python" :> "t_python"
  @@ "m_learn_python" :> "t_learn_python"
  @@ "t_ok" :> "t_ok"
  @@ "t_looks_good" :> "t_looks_good"
  @@ "t_proceed" :> "t_proceed"
  @@ "t_ok_remove" :> "t_ok_remove"
  @@ "t_long_yes" :> "t_long_yes"
  @@ "t_maybe" :> "t_maybe"
  @@ "t_hvac" :> "t_hvac"
  @@ "t_python" :> "t_python"
  @@ "t_learn_python" :> "t_learn_python"

\* the characters of an optional text ("None" is Python's None)
TextOf(id) ==
  IF id = "None" THEN <<>> ELSE Chars[id]

(***************************************************************************)
(* Optional values: <<>> is None, <<x>> is the value x.                    *)
(***************************************************************************)
None ==
  <<>>

Some(x) ==
  <<x>>

(***************************************************************************)
(* state.py: ResearchData, ToolResult, AgentState.                         *)
(***************************************************************************)
ListCategories ==
  {"competitors", "curricula", "courses", "lesson_frequency",
   "module_inventory", "reddit_posts", "quora_answers", "podcasts",
   "blogs", "trending_topics"}

\* create_initial_state: the empty accumulator
EmptyResearchData ==
  [competitors |-> <<>>, curricula |-> <<>>, courses |-> <<>>,
   lesson_frequency |-> <<>>, module_inventory |-> <<>>,
   reddit_posts |-> <<>>, quora_answers |-> <<>>, podcasts |-> <<>>,
   blogs |-> <<>>, sentiment_summary |-> "None", trending_topics |-> <<>>,
   price_analysis |-> "None"]

\* the value a tool returns: None, a list, or a dict with the keys in has
NoData ==
  [kind |-> "none", id |-> 0, items |-> <<>>, has |-> {}, courses |-> <<>>,
   lesson_frequency |-> <<>>, trending_topics |-> <<>>, reddit |-> <<>>,
   quora |-> <<>>, price_analysis |-> "None", sentiment |-> "None"]

ListData(items) ==
  [NoData EXCEPT !.kind = "list", !.items = items]

DictData(id, has) ==
  [NoData EXCEPT !.kind = "dict", !.id = id, !.has = has]

\* Python truthiness of a tool value
Truthy(d) ==
  \/ d.kind = "list" /\ d.items # <<>>
  \/ d.kind = "dict" /\ d.has # {}

\* create_initial_state, plus the keys chat.py and the nodes add to the state
InitialState ==
  [messages |-> <<>>,
   industry |-> "None",
   current_tool_call |-> None,
   current_tool_result |-> None,
   reflection_result |-> None,
   research_data |-> EmptyResearchData,
   next_node |-> "reasoning",
   error |-> FALSE,
   retry_count |-> 0,
   tool_call_count |-> 0,
   research_plan |-> None,
   clarification |-> None,
   awaiting_clarification |-> FALSE,
   is_clarifying_question |-> FALSE]

(***************************************************************************)
(* tools/__init__.py: the registry, and the values the tools return.       *)
(***************************************************************************)
TOOLS ==
  {"search_google", "scrape_webpage", "search_reddit", "search_quora",
   "search_all_forums", "search_course_rankings",
   "discover_courses_with_rankings", "extract_course_lessons",
   "find_podcasts", "find_educational_podcasts", "find_blogs",
   "analyze_content", "save_research", "get_research", "generate_report"}

\* tool names the Reasoning completion names in the explored session
\* (one of them is not registered)
ToolNames ==
  {"discover_courses_with_rankings", "search_google", "no_such_tool"}

Courses12 ==
  [i \in 1..12 |-> i]

\* representative return values of each tool
ToolValues(name) ==
  CASE name = "discover_courses_with_rankings" ->
         {[DictData(1, {"courses", "lesson_frequency", "price_analysis",
                        "trending_topics"})
             EXCEPT !.courses = Courses12, !.lesson_frequency = <<1>>,
                    !.trending_topics = <<1>>, !.price_analysis = "pa1"],
          [DictData(2, {"courses"}) EXCEPT !.courses = <<1, 2, 3>>],
          DictData(3, {"error"})}
    [] name = "search_course_rankings" ->
         {[DictData(4, {"courses"}) EXCEPT !.courses = <<1, 13>>]}
    [] name = "search_google" -> {ListData(<<1, 2>>), ListData(<<>>)}
    [] name \in {"extract_course_lessons", "scrape_webpage"} ->
         {DictData(5, {"lessons"})}
    [] name = "search_all_forums" ->
         {[DictData(6, {"reddit", "quora"})
             EXCEPT !.reddit = <<1>>, !.quora = <<1>>]}
    [] name = "analyze_content" ->
         {[DictData(7, {"sentiment", "trending_topics"})
             EXCEPT !.sentiment = "s1", !.trending_topics = <<2>>]}
    [] name \in {"search_reddit", "search_quora", "find_podcasts",
                 "find_educational_podcasts", "find_blogs"} ->
         {ListData(<<1>>)}
    [] OTHER -> {NoData}

\* execute_tool: the call returns a value or raises
execute_tool(tool_name) ==
  IF tool_name \notin TOOLS
  THEN {[raised |-> TRUE, error |-> "Unknown tool", value |-> NoData]}
  ELSE {[raised |-> FALSE, error |-> "None", value |-> v] :
          v \in ToolValues(tool_name)}
       \cup {[raised |-> TRUE, error |-> "tool raised", value |-> NoData]}

ToolResult(tool_name, success, data, error) ==
  [tool_name |-> tool_name, success |-> success, data |-> data,
   error |-> error]

(***************************************************************************)
(* reflection.py: _update_research_data.                                   *)
(***************************************************************************)
\* for x in items: if x not in list: list.append(x)
RECURSIVE AppendNew(_, _)
AppendNew(list, items) ==
  IF items = <<>> THEN list
  ELSE AppendNew(IF \E i \in 1..Len(list) : list[i] = Head(items)
                 THEN list ELSE Append(list, Head(items)),
                 Tail(items))

\* list.extend(items)
\* variant: the new items replace the list
Extend_replacing(list, items) ==
  items

Extend(list, items) ==
  list \o items

\* variant: every search result is appended
merge_search_results_appending(competitors, results) ==
  competitors \o results

\* the search_google branch: a result is appended if it is not in the list
merge_search_results(competitors, results) ==
  AppendNew(competitors, results)

update_research_data(current, tool_name, tool_data) ==
  IF ~Truthy(tool_data) THEN current
  ELSE
  CASE tool_name = "search_google" ->
         IF tool_data.kind = "list"
         THEN [current EXCEPT
                 !.competitors = merge_search_results(@, tool_data.items)]
         ELSE current
    [] tool_name = "discover_courses_with_rankings" ->
         IF tool_data.kind = "dict"
         THEN [current EXCEPT
                 !.courses = IF "courses" \in tool_data.has
                             THEN Extend(@, tool_data.courses) ELSE @,
                 !.lesson_frequency =
                     IF "lesson_frequency" \in tool_data.has
                     THEN Extend(@, tool_data.lesson_frequency) ELSE @,
                 !.price_analysis =
                     IF "price_analysis" \in tool_data.has
                     THEN tool_data.price_analysis ELSE @,
                 !.trending_topics =
                     IF "trending_topics" \in tool_data.has
                     THEN Extend(@, tool_data.trending_topics) ELSE @]
         ELSE current
    [] tool_name = "extract_course_lessons" ->
         IF tool_data.kind = "dict"
         THEN [current EXCEPT !.curricula = Append(@, tool_data.id)]
         ELSE current
    [] tool_name = "search_course_rankings" ->
         IF tool_data.kind = "dict" /\ "courses" \in tool_data.has
         THEN [current EXCEPT !.courses = AppendNew(@, tool_data.courses)]
         ELSE current
    [] tool_name = "search_all_forums" ->
         IF tool_data.kind = "dict"
         THEN [current EXCEPT
                 !.reddit_posts = IF "reddit" \in tool_data.has
                                  THEN Extend(@, tool_data.reddit) ELSE @,
                 !.quora_answers = IF "quora" \in tool_data.has
                                   THEN Extend(@, tool_data.quora) ELSE @]
         ELSE current
    [] tool_name = "scrape_webpage" ->
         IF tool_data.kind = "dict"
         THEN [current EXCEPT !.curricula = Append(@, tool_data.id)]
         ELSE current
    [] tool_name = "search_reddit" ->
         IF tool_data.kind = "list"
         THEN [current EXCEPT !.reddit_posts = Extend(@, tool_data.items)]
         ELSE current
    [] tool_name = "search_quora" ->
         IF tool_data.kind = "list"
         THEN [current EXCEPT !.quora_answers = Extend(@, tool_data.items)]
         ELSE current
    [] tool_name \in {"find_podcasts", "find_educational_podcasts"} ->
         IF tool_data.kind = "list"
         THEN [current EXCEPT !.podcasts = Extend(@, tool_data.items)]
         ELSE current
    [] tool_name = "find_blogs" ->
         IF tool_data.kind = "list"
         THEN [current EXCEPT !.blogs = Extend(@, tool_data.items)]
         ELSE current
    [] tool_name = "analyze_content" ->
         IF tool_data.kind = "dict"
         THEN [current EXCEPT
                 !.sentiment_summary = IF "sentiment" \in tool_data.has
                                       THEN tool_data.sentiment ELSE @,
                 !.trending_topics =
                     IF "trending_topics" \in tool_data.has
                     THEN Extend(@, tool_data.trending_topics) ELSE @]
         ELSE current
    [] OTHER -> current

(***************************************************************************)
(* clarification.py: the plan and the clarification state.                 *)
(***************************************************************************)
\* names of the providers a discovery finds
Providers ==
  {"p1", "p2"}

\* selections a plan edit may return
Selections ==
  {{"p1", "p2"}, {"p1"}}

ResearchPlan(industry, selected, confirmed) ==
  [industry |-> industry, selected_competitors |-> selected,
   is_confirmed |-> confirmed]

\* variant: the stage stays "refining" when the user confirms
ClarificationState_never_confirmed(stage, iteration, complete) ==
  [stage |-> IF stage = "confirmed" THEN "refining" ELSE stage,
   iteration |-> iteration, is_complete |-> complete]

ClarificationState(stage, iteration, complete) ==
  [stage |-> stage, iteration |-> iteration, is_complete |-> complete]

\* the classifier results for the messages of the model
ConfirmTable ==
  [m \in MessageIds |-> is_confirmed(Chars[m])]

NewTopicTable ==
  [m \in MessageIds |->
     [t \in DOMAIN Chars \cup {"None"} |->
        is_new_research_request(Chars[m], TextOf(t))]]

\* discover_research_plan: always reports success, with the cleaned topic
discover_research_plan(industry) ==
  [success |-> TRUE, industry |-> extract_clean_topic[industry]]

\* variant: every other message is taken for the first one of the session
UserMessageCount_every_other(messages) ==
  Cardinality({i \in 1..Len(messages) : messages[i] = "user"}) % 2

UserMessageCount(messages) ==
  Cardinality({i \in 1..Len(messages) : messages[i] = "user"})

\* clarification_node: the state update for the last user message;
\* edited is the selection the plan-edit completion returns
clarification_node(s, message, edited) ==
  LET clarification == s.clarification
      stage0 == IF clarification # None THEN clarification[1].stage
                ELSE "discovery"
      current_industry == IF s.research_plan # None
                          THEN s.research_plan[1].industry ELSE "None"
      is_new_topic == NewTopicTable[message][current_industry]
      force == \/ UserMessageCount(s.messages) = 1
               \/ is_new_topic /\ s.research_plan # None
      stage == IF force THEN "discovery" ELSE stage0
      research_plan == IF force THEN None ELSE s.research_plan
  IN
  IF stage = "discovery" \/ research_plan = None
  THEN LET industry == IF s.industry # "None" THEN s.industry ELSE message
           discovery_result == discover_research_plan(industry)
       IN IF ~discovery_result.success
          THEN [update |-> [s EXCEPT !.messages = Append(@, "ai"),
                                     !.awaiting_clarification = TRUE,
                                     !.next_node = "end"],
                keys |-> {}, says |-> TRUE]
          ELSE [update |->
                  [s EXCEPT
                     !.messages = Append(@, "ai"),
                     !.research_plan =
                        Some(ResearchPlan(discovery_result.industry,
                                          Providers, FALSE)),
                     !.industry = discovery_result.industry,
                     !.clarification =
                        Some(ClarificationState("presenting_plan", 1, FALSE)),
                     !.awaiting_clarification = TRUE,
                     !.next_node = "end"],
                keys |-> {"research_plan", "industry", "clarification"},
                says |-> TRUE]
  ELSE IF stage \in {"presenting_plan", "refining"}
  THEN IF ConfirmTable[message]
       THEN [update |->
               [s EXCEPT
                  !.messages = Append(@, "ai"),
                  !.research_plan =
                     Some([research_plan[1] EXCEPT !.is_confirmed = TRUE]),
                  !.clarification =
                     Some(ClarificationState("confirmed",
                                             clarification[1].iteration,
                                             TRUE)),
                  !.awaiting_clarification = FALSE,
                  !.next_node = "reasoning"],
             keys |-> {"research_plan", "clarification"}, says |-> FALSE]
       ELSE [update |->
               [s EXCEPT
                  !.messages = Append(@, "ai"),
                  !.research_plan =
                     Some([research_plan[1] EXCEPT
                             !.selected_competitors = edited]),
                  !.clarification =
                     Some(ClarificationState("refining",
                                             clarification[1].iteration + 1,
                                             FALSE)),
                  !.awaiting_clarification = TRUE,
                  !.next_node = "end"],
             keys |-> {"research_plan", "clarification"}, says |-> TRUE]
  ELSE IF stage = "confirmed"
  THEN [update |-> [s EXCEPT !.awaiting_clarification = FALSE,
                             !.next_node = "reasoning"],
        keys |-> {}, says |-> FALSE]
  ELSE [update |-> [s EXCEPT !.next_node = "reasoning"],
        keys |-> {}, says |-> FALSE]

(***************************************************************************)
(* graph.py: the routers.                                                  *)
(***************************************************************************)
\* variant: the courses are looked at before the awaited reply
route_entry_courses_first(s) ==
  LET courses == s.research_data.courses
      research_plan == s.research_plan
      clarification == s.clarification
  IN
  IF Len(courses) > 0 THEN "reasoning"
  ELSE IF research_plan # None /\ research_plan[1].is_confirmed
  THEN "reasoning"
  ELSE IF /\ s.awaiting_clarification
          /\ clarification # None
          /\ clarification[1].stage \in {"presenting_plan", "refining", "discovery"}
  THEN "clarification"
  ELSE IF clarification # None /\ clarification[1].stage = "confirmed"
  THEN "reasoning"
  ELSE IF s.tool_call_count > 0 THEN "reasoning"
  ELSE IF research_plan = None THEN "clarification"
  ELSE IF research_plan # None /\ ~research_plan[1].is_confirmed
  THEN "clarification"
  ELSE "reasoning"

\* variant: a session without a plan goes straight to Reasoning
route_entry_without_planning(s) ==
  LET courses == s.research_data.courses
      research_plan == s.research_plan
      clarification == s.clarification
  IN
  IF /\ s.awaiting_clarification
     /\ clarification # None
     /\ clarification[1].stage \in {"presenting_plan", "refining", "discovery"}
  THEN "clarification"
  ELSE IF Len(courses) > 0 THEN "reasoning"
  ELSE IF research_plan # None /\ research_plan[1].is_confirmed
  THEN "reasoning"
  ELSE IF clarification # None /\ clarification[1].stage = "confirmed"
  THEN "reasoning"
  ELSE IF s.tool_call_count > 0 THEN "reasoning"
  ELSE IF research_plan = None THEN "reasoning"
  ELSE IF research_plan # None /\ ~research_plan[1].is_confirmed
  THEN "clarification"
  ELSE "reasoning"

route_entry(s) ==
  LET courses == s.research_data.courses
      research_plan == s.research_plan
      clarification == s.clarification
  IN
  IF /\ s.awaiting_clarification
     /\ clarification # None
     /\ clarification[1].stage \in {"presenting_plan", "refining", "discovery"}
  THEN "clarification"
  ELSE IF Len(courses) > 0 THEN "reasoning"
  ELSE IF research_plan # None /\ research_plan[1].is_confirmed
  THEN "reasoning"
  ELSE IF clarification # None /\ clarification[1].stage = "confirmed"
  THEN "reasoning"
  ELSE IF s.tool_call_count > 0 THEN "reasoning"
  ELSE IF research_plan = None THEN "clarification"
  ELSE IF research_plan # None /\ ~research_plan[1].is_confirmed
  THEN "clarification"
  ELSE "reasoning"

\* variant: the run stops after Clarification whatever it decided
route_after_clarification_always_end(s) ==
  "end"

\* variant: the awaited reply is not looked at after Clarification
route_after_clarification_not_halting(s) ==
  IF s.next_node = "reasoning" THEN "reasoning"
  ELSE IF s.research_plan # None /\ s.research_plan[1].is_confirmed
  THEN "reasoning"
  ELSE IF s.clarification # None /\ s.clarification[1].is_complete
  THEN "reasoning"
  ELSE "reasoning"

route_after_clarification(s) ==
  IF s.next_node = "reasoning" THEN "reasoning"
  ELSE IF s.awaiting_clarification THEN "end"
  ELSE IF s.research_plan # None /\ s.research_plan[1].is_confirmed
  THEN "reasoning"
  ELSE IF s.clarification # None /\ s.clarification[1].is_complete
  THEN "reasoning"
  ELSE "end"

\* variant: the router goes where the hint says
route_after_reasoning_trusting_hint(s) ==
  IF s.next_node = "tool_executor" THEN "tool_executor"
  ELSE IF s.next_node = "response" THEN "response"
  ELSE "response"

route_after_reasoning(s) ==
  IF s.next_node = "tool_executor" /\ s.current_tool_call # None
  THEN "tool_executor"
  ELSE IF s.next_node = "response" THEN "response"
  ELSE "response"

\* variant: the router follows the verdict of Reflection
route_after_reflection_by_verdict(s) ==
  IF s.next_node = "response" THEN "response"
  ELSE IF s.tool_call_count >= 2 THEN "response"
  ELSE "reasoning"

route_after_reflection(s) ==
  IF Len(s.research_data.courses) > 0 THEN "response"
  ELSE IF s.tool_call_count >= 2 THEN "response"
  ELSE "reasoning"

route_after_response(s) ==
  "end"

\* variant: the tool executor hands back to Reasoning
tool_executor_edge_to_reasoning ==
  "reasoning"

\* create_research_graph: workflow.add_edge("tool_executor", "reflection")
tool_executor_edge ==
  "reflection"

(***************************************************************************)
(* The nodes.  Each operator gives the state after the node's update has   *)
(* been merged into the state.                                             *)
(***************************************************************************)
\* reasoning_node for a parsed decision (action, tool name, industry)
reasoning_node(s, action, tool_name, industry) ==
  IF action = "ask_question"
  THEN [s EXCEPT !.next_node = "response",
                 !.messages = Append(@, "ai"),
                 !.is_clarifying_question = TRUE]
  ELSE IF action = "call_tool"
  THEN [s EXCEPT !.current_tool_call = Some([name |-> tool_name]),
                 !.next_node = "tool_executor",
                 !.industry = IF industry # "None" THEN industry ELSE @,
                 !.messages = Append(@, "ai")]
  ELSE [s EXCEPT !.next_node = "response",
                 !.messages = Append(@, "ai")]

\* shapes of the completion text the Reasoning step may receive
Completions ==
  {"not_json", "no_action", "call_tool_no_name", "call_tool_no_arguments",
   "not_object", "ask_question", "call_tool", "respond"}

\* the shapes the Reasoning completions of the explored session have
TurnCompletions ==
  {"no_action", "not_object", "ask_question", "call_tool", "respond"}

\* _parse_reasoning_response: the value json.loads gives, or the respond
\* decision that stands in for a text that is not JSON
parse_reasoning_response(content) ==
  CASE content = "not_json" ->
         [object |-> TRUE, keys |-> {"action", "thinking"},
          action |-> "respond"]
    [] content = "no_action" ->
         [object |-> TRUE, keys |-> {"thinking"}, action |-> "None"]
    [] content = "call_tool_no_name" ->
         [object |-> TRUE, keys |-> {"action", "tool_arguments"},
          action |-> "call_tool"]
    [] content = "call_tool_no_arguments" ->
         [object |-> TRUE, keys |-> {"action", "tool_name"},
          action |-> "call_tool"]
    [] content = "not_object" ->
         [object |-> FALSE, keys |-> {}, action |-> "None"]
    [] content = "ask_question" ->
         [object |-> TRUE, keys |-> {"action", "question"},
          action |-> "ask_question"]
    [] content = "call_tool" ->
         [object |-> TRUE,
          keys |-> {"action", "tool_name", "tool_arguments", "thinking"},
          action |-> "call_tool"]
    [] content = "respond" ->
         [object |-> TRUE, keys |-> {"action", "thinking"},
          action |-> "respond"]

\* reasoning_node from the completion text on: the parse inside try/except
\* (result.get on a value that is no dict raises there and is caught), then
\* the subscripts result["action"], result["tool_name"] and
\* result["tool_arguments"] outside of it
reasoning_step(s, content, tool_name, industry) ==
  LET result == parse_reasoning_response(content)
  IN IF ~result.object
     THEN [raised |-> FALSE, keys |-> {},
           state |-> [s EXCEPT !.next_node = "response", !.error = TRUE]]
     ELSE IF "action" \notin result.keys
     THEN [raised |-> TRUE, keys |-> {}, state |-> s]
     ELSE IF result.action = "ask_question"
     THEN [raised |-> FALSE, keys |-> {},
           state |-> reasoning_node(s, "ask_question", "None", "None")]
     ELSE IF result.action = "call_tool"
     THEN IF {"tool_name", "tool_arguments"} \subseteq result.keys
          THEN [raised |-> FALSE, keys |-> {"industry"},
                state |-> reasoning_node(s, "call_tool", tool_name, industry)]
          ELSE [raised |-> TRUE, keys |-> {}, state |-> s]
     ELSE [raised |-> FALSE, keys |-> {},
           state |-> reasoning_node(s, "respond", "None", "None")]

\* variant: an exception of the tool is let through as a success
tool_executor_node_uncaught(s, outcome) ==
  IF s.current_tool_call = None
  THEN [s EXCEPT
          !.current_tool_result =
             Some(ToolResult("unknown", FALSE, NoData,
                             "No tool call specified")),
          !.next_node = "reflection"]
  ELSE [s EXCEPT
          !.current_tool_result =
             Some(ToolResult(s.current_tool_call[1].name, TRUE,
                             outcome.value, "None")),
          !.next_node = "reflection",
          !.messages = Append(@, "tool")]

\* tool_executor_node for one outcome of execute_tool
tool_executor_node(s, outcome) ==
  IF s.current_tool_call = None
  THEN [s EXCEPT
          !.current_tool_result =
             Some(ToolResult("unknown", FALSE, NoData,
                             "No tool call specified")),
          !.next_node = "reflection"]
  ELSE LET tool_name == s.current_tool_call[1].name
       IN IF ~outcome.raised
          THEN [s EXCEPT
                  !.current_tool_result =
                     Some(ToolResult(tool_name, TRUE, outcome.value, "None")),
                  !.next_node = "reflection",
                  !.messages = Append(@, "tool")]
          ELSE [s EXCEPT
                  !.current_tool_result =
                     Some(ToolResult(tool_name, FALSE, NoData, outcome.error)),
                  !.next_node = "reflection",
                  !.error = TRUE]

ReflectionResult(valid, relevant, sufficient) ==
  [is_valid |-> valid, is_relevant |-> relevant, is_sufficient |-> sufficient]

\* variant: a failed result is not counted as a retry
reflection_node_uncounted_failure(s, cache, verdict) ==
  IF s.current_tool_result = None \/ ~s.current_tool_result[1].success
  THEN [state |-> [s EXCEPT
                     !.reflection_result =
                        Some(ReflectionResult(FALSE, FALSE, FALSE)),
                     !.next_node = "reasoning"],
        cache |-> cache, keys |-> {}]
  ELSE LET updated_research ==
             update_research_data(IF cache # None THEN cache[1]
                                  ELSE s.research_data,
                                  s.current_tool_result[1].tool_name,
                                  s.current_tool_result[1].data)
       IN [state |-> [s EXCEPT
                        !.reflection_result =
                           Some(ReflectionResult(TRUE, TRUE, verdict)),
                        !.research_data = updated_research,
                        !.next_node = IF verdict THEN "response"
                                      ELSE "reasoning",
                        !.tool_call_count = @ + 1,
                        !.messages = Append(@, "ai")],
           cache |-> Some(updated_research),
           keys |-> {"research_data"}]

\* reflection_node: cache is _session_research_data.get(session_id),
\* verdict the is_sufficient value parsed from the completion
reflection_node(s, cache, verdict) ==
  IF s.current_tool_result = None
  THEN [state |-> [s EXCEPT
                     !.reflection_result =
                        Some(ReflectionResult(FALSE, FALSE, FALSE)),
                     !.next_node = "reasoning"],
        cache |-> cache, keys |-> {}]
  ELSE IF ~s.current_tool_result[1].success
  THEN [state |-> [s EXCEPT
                     !.reflection_result =
                        Some(ReflectionResult(FALSE, FALSE, FALSE)),
                     !.next_node = "reasoning",
                     !.retry_count = @ + 1],
        cache |-> cache, keys |-> {}]
  ELSE LET existing_research == IF cache # None THEN cache[1]
                                ELSE s.research_data
           updated_research ==
             update_research_data(existing_research,
                                  s.current_tool_result[1].tool_name,
                                  s.current_tool_result[1].data)
       IN [state |-> [s EXCEPT
                        !.reflection_result =
                           Some(ReflectionResult(TRUE, TRUE, verdict)),
                        !.research_data = updated_research,
                        !.next_node = IF verdict THEN "response"
                                      ELSE "reasoning",
                        !.tool_call_count = @ + 1,
                        !.messages = Append(@, "ai")],
           cache |-> Some(updated_research),
           keys |-> {"research_data"}]

\* response_node: which answer is produced
response_node(s, cache) ==
  IF s.is_clarifying_question /\ s.messages # <<>>
  THEN "question"
  ELSE LET research_data == IF cache # None THEN cache[1]
                            ELSE s.research_data
       IN IF Len(research_data.courses) = 0
             /\ research_data.module_inventory = <<>>
          THEN "no_data"
          ELSE "report"

(***************************************************************************)
(* The session: one turn of chat.py at a time.                             *)
(***************************************************************************)
VARIABLES
  db,               \* the session row and its messages in the session store
  session_cache,    \* reflection.py: _session_research_data[session_id]
  loaded,           \* chat.py: db_session, the row as read at turn start
  request_message,  \* chat.py: request.message (a message id)
  state,            \* the AgentState of the running graph
  pc,               \* idle, the node about to run, end, or error
  steps,            \* supersteps run in this turn
  events,           \* node names of the ("graph", node, ...) events
  last_route,       \* what the last router returned
  tracked,          \* chat.py: new_research_plan, new_clarification, ...
  final_response,   \* chat.py: final_response_content is non-empty
  turns,            \* turns started so far
  successes,        \* tool calls of the session that returned a value
  completion,       \* the shape of the completion Reasoning received last
  stream,           \* chat.py: the tasks, queues and output of one event stream
  flight,           \* two turns of one session that are in flight together
  client,            \* anthropic.py: one call of ClaudeClient.complete
  serp,  \* serpapi.py: one call of SerpAPIClient.search
  fanout,  \* plan_discovery.py: one call of discover_research_plan
  orch,  \* research_orchestrator.py: the orchestrator, its sub-call and its saved state
  deep,  \* mcp_research.py: one call of adaptive_deep_research
  progress,  \* the progress callback of the process and the progress queues of the sessions
  edit,  \* the plan under edit in a planning dialogue
  overlap  \* two overlapping requests of one session and its stored row

vars ==
  <<db, session_cache, loaded, request_message, state, pc, steps, events,
    last_route, tracked, final_response, turns, successes, completion,
    stream, flight, client,
    serp,
    fanout,
    orch,
    deep,
    progress,
    edit,
    overlap>>

\* the variables of the turn and of the session store
turnvars ==
  <<db, session_cache, loaded, request_message, state, pc, steps, events,
    last_route, tracked, final_response, turns, successes, completion>>

\* the sessions served by the one process
Sessions ==
  {"A", "B"}

\* course_discovery.py 8 and chat.py 143-150: the module's callback (the
\* session whose closure it is, or "None"), and per session the position of
\* its turn, its progress queue, the progress events sent on its stream and
\* the number of messages its tool reported; lost holds the messages reported
\* while no callback was set
NoProgress ==
  [callback |-> "None",
   at |-> [s \in Sessions |-> "idle"],
   queue |-> [s \in Sessions |-> <<>>],
   sent |-> [s \in Sessions |-> <<>>],
   reported |-> [s \in Sessions |-> 0],
   lost |-> <<>>]

\* clarification.py 23-38: the plan a discovery presents, with the names of
\* its competitors, certifications and audiences and the three selections
DiscoveredPlan ==
  [competitors |-> <<"p1", "p2">>,
   certifications |-> <<"c1">>,
   target_audiences |-> <<"a1">>,
   selected_competitors |-> <<"p1", "p2">>,
   selected_certifications |-> <<"c1">>,
   selected_audience |-> "All levels"]

\* the plan of the planning dialogue, the number of edits made, and for the
\* last edit the plan before it, the completion's answer and whether the
\* edit raised
NoEdit ==
  [plan |-> DiscoveredPlan, edits |-> 0, before |-> DiscoveredPlan,
   answer |-> [kind |-> "None"], raised |-> FALSE]

\* SERVICEVARS
\* the variables of the services around the graph of the turn
servicevars ==
  <<stream, flight, client, serp, fanout, orch, deep, progress, edit, overlap>>

\* the service variables an action on stream leaves alone
but_stream ==
  <<flight, client, serp, fanout, orch, deep, progress, edit, overlap>>

\* the service variables an action on flight leaves alone
but_flight ==
  <<stream, client, serp, fanout, orch, deep, progress, edit, overlap>>

\* the service variables an action on client leaves alone
but_client ==
  <<stream, flight, serp, fanout, orch, deep, progress, edit, overlap>>

\* the service variables an action on serp leaves alone
but_serp ==
  <<stream, flight, client, fanout, orch, deep, progress, edit, overlap>>

\* the service variables an action on fanout leaves alone
but_fanout ==
  <<stream, flight, client, serp, orch, deep, progress, edit, overlap>>

\* the service variables an action on orch leaves alone
but_orch ==
  <<stream, flight, client, serp, fanout, deep, progress, edit, overlap>>

\* the service variables an action on deep leaves alone
but_deep ==
  <<stream, flight, client, serp, fanout, orch, progress, edit, overlap>>

\* the service variables an action on progress leaves alone
but_progress ==
  <<stream, flight, client, serp, fanout, orch, deep, edit, overlap>>

\* the service variables an action on edit leaves alone
but_edit ==
  <<stream, flight, client, serp, fanout, orch, deep, progress, overlap>>

\* the service variables an action on overlap leaves alone
but_overlap ==
  <<stream, flight, client, serp, fanout, orch, deep, progress, edit>>
\* END SERVICEVARS

\* the event stream before its tasks are started
NoStream ==
  [queue |-> <<>>, out |-> <<>>, produced |-> 0, graph_task |-> "idle",
   graph_complete |-> FALSE, keepalive_task |-> "idle", progress_queue |-> 0, reported |-> 0,
   subscribed |-> FALSE, consumer |-> "idle", timers |-> 0]

\* no second turn in flight
NoFlight ==
  [turn |-> [t \in {"a", "b"} |-> "idle"], merges |-> <<>>,
   accumulator |-> <<>>]

\* no completion call under way
NoClient ==
  [pc |-> "idle", attempt |-> 0, calls |-> 0, failures |-> <<>>,
   longest |-> 0, waited |-> 0, waits |-> <<>>, last_error |-> "None"]

\* the branches of discover_research_plan, in the order of search_tasks
Branches ==
  <<"competitors", "certifications", "audiences">>

\* no plan discovery under way
NoFanout ==
  [pc |-> "idle", task |-> [i \in 1..3 |-> "none"],
   results |-> [i \in 1..3 |-> <<>>], plan |-> <<>>]

\* CurriculumResearchOrchestrator.__init__: self.state
InitialOrchestratorState ==
  [topic |-> "", phase |-> "INITIAL", clarifications |-> <<>>,
   findings |-> <<>>, history |-> <<>>, awaiting_feedback |-> FALSE]

\* a new orchestrator that has processed no message
NoOrch ==
  [state |-> InitialOrchestratorState, pc |-> "idle", call |-> "None",
   message |-> "None", messages |-> 0, trail |-> <<>>, restores |-> 0,
   restored |-> "None"]

\* no deep research under way
NoDeep ==
  [pc |-> "idle", passes |-> 0, pass_num |-> 0, all_findings |-> <<>>,
   total_searches |-> 0, pass_findings |-> <<>>, given |-> <<>>,
   reported |-> <<>>, out |-> <<>>, max_searches |-> 0, limits |-> <<>>]

\* no search call under way
NoSerp ==
  [pc |-> "idle", attempt |-> 0, failures |-> <<>>, waits |-> <<>>,
   result |-> "None"]

NoTracked ==
  [research_plan |-> None, clarification |-> None, research_data |-> None,
   industry |-> "None"]

EmptyRow ==
  [research_plan |-> None, clarification_state |-> None,
   research_data |-> None, industry |-> "None"]

\* two requests of one session: the position of each, the row each loaded,
\* the outputs each tracked, the columns a node of each wrote anew, and the
\* stored row of the session
NoOverlap ==
  [at |-> [t \in {"a", "b"} |-> "idle"],
   db_session |-> [t \in {"a", "b"} |-> EmptyRow],
   new |-> [t \in {"a", "b"} |-> NoTracked],
   produced |-> [t \in {"a", "b"} |-> {}],
   row |-> [research_plan |-> Some(ResearchPlan("t_hvac", Providers, FALSE)),
            clarification_state |->
               Some(ClarificationState("presenting_plan", 1, FALSE)),
            research_data |-> None,
            industry |-> "t_hvac"]]

Init ==
  /\ db = [messages |-> <<>>, row |-> EmptyRow]
  /\ session_cache = None
  /\ loaded = EmptyRow
  /\ request_message = "None"
  /\ state = InitialState
  /\ pc = "idle"
  /\ steps = 0
  /\ events = <<>>
  /\ last_route = "none"
  /\ tracked = NoTracked
  /\ final_response = FALSE
  /\ turns = 0
  /\ successes = 0
  /\ completion = "None"
  /\ stream = NoStream
  /\ flight = NoFlight
  /\ client = NoClient
  /\ overlap = NoOverlap
  /\ edit = NoEdit
  /\ progress = NoProgress
  /\ deep = NoDeep
  /\ orch = NoOrch
  /\ fanout = NoFanout
  /\ serp = NoSerp

\* chat.py 116-140: the AgentState built from the loaded row and the
\* conversation (history plus the new user message)
TurnState(row, messages) ==
  [InitialState EXCEPT
     !.messages = messages,
     !.research_plan = row.research_plan,
     !.clarification = row.clarification_state,
     !.research_data = IF row.research_data # None
                       THEN row.research_data[1]
                       ELSE EmptyResearchData,
     !.industry = row.industry,
     !.awaiting_clarification =
        /\ row.clarification_state # None
        /\ row.clarification_state[1].stage
             \in {"presenting_plan", "refining"}]

\* chat.py 83-140: load the session, store the user message, build the state
StartTurn(m) ==
  /\ pc = "idle"
  /\ UNCHANGED servicevars
  /\ turns < MaxTurns
  /\ turns' = turns + 1
  /\ request_message' = m
  /\ loaded' = db.row
  /\ db' = [db EXCEPT !.messages = Append(@, "user")]
  /\ state' = TurnState(db.row, Append(db.messages, "user"))
  /\ pc' = "entry"
  /\ steps' = 0
  /\ events' = <<>>
  /\ last_route' = "none"
  /\ tracked' = NoTracked
  /\ final_response' = FALSE
  /\ completion' = "None"
  /\ UNCHANGED <<session_cache, successes>>

\* the graph moves on: to the routed node, to END, or LangGraph gives up
Route(r) ==
  /\ last_route' = r
  /\ steps' = steps + 1
  /\ pc' = IF r = "end" THEN "end"
           ELSE IF steps + 1 >= RecursionLimit THEN "error"
           ELSE r

\* a node raised: run_graph reports the error and the graph stops
Raise ==
  /\ last_route' = "raise"
  /\ steps' = steps + 1
  /\ pc' = "error"

\* chat.py 241-248: the consumer records the keys of a node's output
Track(keys, s) ==
  [research_plan |-> IF "research_plan" \in keys THEN s.research_plan
                     ELSE tracked.research_plan,
   clarification |-> IF "clarification" \in keys THEN s.clarification
                     ELSE tracked.clarification,
   research_data |-> IF "research_data" \in keys THEN Some(s.research_data)
                     ELSE tracked.research_data,
   industry |-> IF "industry" \in keys THEN s.industry
                ELSE tracked.industry]

\* the pass-through entry node: its output is the whole state
Entry ==
  /\ pc = "entry"
  /\ UNCHANGED servicevars
  /\ events' = Append(events, "entry")
  /\ tracked' = Track({"research_data", "industry"}
                      \cup (IF state.research_plan # None
                            THEN {"research_plan"} ELSE {})
                      \cup (IF state.clarification # None
                            THEN {"clarification"} ELSE {}), state)
  /\ Route(route_entry(state))
  /\ UNCHANGED completion
  /\ UNCHANGED <<db, session_cache, loaded, request_message, state,
                 final_response, turns, successes>>

Clarification ==
  /\ pc = "clarification"
  /\ UNCHANGED servicevars
  /\ \E edited \in Selections :
       LET out == clarification_node(state, request_message, edited)
       IN /\ state' = out.update
          /\ tracked' = Track(out.keys, out.update)
          /\ final_response' = (final_response \/ out.says)
          /\ Route(route_after_clarification(out.update))
  /\ events' = Append(events, "clarification")
  /\ UNCHANGED completion
  /\ UNCHANGED <<db, session_cache, loaded, request_message, turns, successes>>

\* the industry a Reasoning completion puts into its decision: the explored
\* completions leave it out
DecisionIndustries ==
  {"None"}

\* the Reasoning node on a completion of one of the given shapes
ReasoningOn(contents) ==
  /\ pc = "reasoning"
  /\ UNCHANGED servicevars
  /\ events' = Append(events, "reasoning")
  /\ \/ \E content \in contents, tool_name \in ToolNames,
           industry \in DecisionIndustries :
          LET out == reasoning_step(state, content, tool_name, industry)
          IN /\ completion' = content
             /\ IF out.raised
                THEN /\ Raise
                     /\ UNCHANGED <<state, tracked>>
                ELSE /\ state' = out.state
                     /\ tracked' = Track(out.keys, out.state)
                     /\ Route(route_after_reasoning(out.state))
     \/ \* the completion call itself raised
        /\ completion' = "raised"
        /\ Raise
        /\ UNCHANGED <<state, tracked>>
  /\ UNCHANGED <<db, session_cache, loaded, request_message,
                 final_response, turns, successes>>

Reasoning ==
  ReasoningOn(TurnCompletions)

ToolExecutor ==
  /\ pc = "tool_executor"
  /\ UNCHANGED servicevars
  /\ events' = Append(events, "tool_executor")
  /\ \E outcome \in (IF state.current_tool_call = None
                     THEN {[raised |-> TRUE, error |-> "None",
                            value |-> NoData]}
                     ELSE execute_tool(state.current_tool_call[1].name)) :
       /\ outcome.raised \/ successes < MaxSuccesses
       /\ state' = tool_executor_node(state, outcome)
       /\ successes' = IF outcome.raised THEN successes ELSE successes + 1
  /\ Route(tool_executor_edge)
  /\ UNCHANGED completion
  /\ UNCHANGED <<db, session_cache, loaded, request_message, tracked,
                 final_response, turns>>

Reflection ==
  /\ pc = "reflection"
  /\ UNCHANGED servicevars
  /\ events' = Append(events, "reflection")
  /\ \/ \E verdict \in BOOLEAN :
          LET out == reflection_node(state, session_cache, verdict)
          IN /\ state' = out.state
             /\ session_cache' = out.cache
             /\ tracked' = Track(out.keys, out.state)
             /\ Route(route_after_reflection(out.state))
     \/ \* the validation completion raised
        /\ state.current_tool_result # None
        /\ state.current_tool_result[1].success
        /\ Raise
        /\ UNCHANGED <<state, session_cache, tracked>>
  /\ UNCHANGED completion
  /\ UNCHANGED <<db, loaded, request_message, final_response, turns, successes>>

Response ==
  /\ pc = "response"
  /\ UNCHANGED servicevars
  /\ events' = Append(events, "response")
  /\ LET answer == response_node(state, session_cache)
     IN /\ state' = [state EXCEPT
                       !.next_node = "end",
                       !.messages = IF answer = "question" THEN @
                                    ELSE Append(@, "ai")]
        \* chat.py 307-310: only a long answer becomes the final response
        /\ final_response' = (final_response \/ answer = "report")
  /\ Route(route_after_response(state'))
  /\ UNCHANGED completion
  /\ UNCHANGED <<db, session_cache, loaded, request_message, tracked, turns, successes>>

\* chat.py 349-369: store the assistant message and the session state
\* chat.py 361-369 and sessions.py 96-124: the row after the save of a turn
\* that tracked the outputs new and was loaded with db_session
update_session_state(new, db_session, row) ==
  LET research_plan == IF new.research_plan # None
                       THEN new.research_plan
                       ELSE db_session.research_plan
      clarification_state == IF new.clarification # None
                             THEN new.clarification
                             ELSE db_session.clarification_state
      research_data == IF new.research_data # None
                       THEN new.research_data
                       ELSE db_session.research_data
      industry == IF new.industry # "None"
                  THEN new.industry ELSE db_session.industry
  IN \* update_session_state: None leaves the column as it is
     [research_plan |-> IF research_plan # None THEN research_plan
                        ELSE row.research_plan,
      clarification_state |->
         IF clarification_state # None THEN clarification_state
         ELSE row.clarification_state,
      research_data |-> IF research_data # None THEN research_data
                        ELSE row.research_data,
      industry |-> IF industry # "None" THEN industry
                   ELSE row.industry]

SaveTurn ==
  /\ pc \in {"end", "error"}
  /\ UNCHANGED servicevars
  /\ db' =
       [messages |-> IF final_response THEN Append(db.messages, "assistant")
                     ELSE db.messages,
        row |-> update_session_state(tracked, loaded, db.row)]
  /\ pc' = "idle"
  \* the graph state, the event stream and the tracked outputs end with the
  \* request
  /\ state' = InitialState
  /\ steps' = 0
  /\ events' = <<>>
  /\ last_route' = "none"
  /\ tracked' = NoTracked
  /\ final_response' = FALSE
  /\ loaded' = EmptyRow
  /\ request_message' = "None"
  /\ completion' = "None"
  /\ UNCHANGED <<session_cache, turns, successes>>

\* the server process restarts: the in-process cache is lost
Restart ==
  /\ pc = "idle"
  /\ UNCHANGED servicevars
  /\ session_cache # None
  /\ turns < MaxTurns
  /\ session_cache' = None
  /\ UNCHANGED completion
  /\ UNCHANGED <<db, loaded, request_message, state, pc, steps, events,
                 last_route, tracked, final_response, turns, successes>>

Turn ==
  \E m \in TurnMessages : StartTurn(m)

Next ==
  \/ Turn
  \/ Entry
  \/ Clarification
  \/ Reasoning
  \/ ToolExecutor
  \/ Reflection
  \/ Response
  \/ SaveTurn
  \/ Restart

Spec ==
  Init /\ [][Next]_vars

\* every step of a turn that can be taken is eventually taken
FairSpec ==
  /\ Spec
  /\ WF_vars(Entry)
  /\ WF_vars(Clarification)
  /\ WF_vars(Reasoning)
  /\ WF_vars(ToolExecutor)
  /\ WF_vars(Reflection)
  /\ WF_vars(Response)
  /\ WF_vars(SaveTurn)


TypeOK ==
  /\ pc \in {"idle", "entry", "clarification", "reasoning", "tool_executor",
             "reflection", "response", "end", "error"}
  /\ steps \in 0..RecursionLimit
  /\ turns \in 0..MaxTurns
  /\ successes \in 0..MaxSuccesses

(***************************************************************************)
(* Properties of the graph within one turn.                                *)
(***************************************************************************)
\* the node that ran last in this turn
LastNode ==
  IF events = <<>> THEN "none" ELSE events[Len(events)]

\* the router after Reflection has just decided
AfterReflection ==
  LastNode = "reflection" /\ last_route \in {"reasoning", "response"}

\* C1: after a Reflection step the router goes to Response whenever
\* tool_call_count >= 4 or retry_count >= 3, whatever the verdict was.
C1_SafetyCeiling ==
  (AfterReflection /\ (state.tool_call_count >= 4 \/ state.retry_count >= 3))
    => last_route = "response"

\* C2: every turn reaches End: no turn in which no node raised is cut off
\* before End, so the only way into the error state is a raising node.
C2_TurnReachesEnd ==
  pc = "error" => last_route = "raise"

\* C3: between two ToolExecutor entries of a turn there is a Reflection
\* entry, and a Reasoning entry (one tool invocation per Reasoning pass).
C3_OneToolPerPass ==
  \A i \in 1..Len(events) : \A j \in (i + 1)..Len(events) :
    (events[i] = "tool_executor" /\ events[j] = "tool_executor")
      => /\ \E k \in (i + 1)..(j - 1) : events[k] = "reflection"
         /\ \E k \in (i + 1)..(j - 1) : events[k] = "reasoning"

\* a turn that entered ToolExecutor twice
C3_Witness ==
  Cardinality({i \in 1..Len(events) : events[i] = "tool_executor"}) >= 2

(***************************************************************************)
(* Properties of the accumulator.                                          *)
(***************************************************************************)
\* number of items of a category in an optional accumulator
Count(data, c) ==
  IF data = None THEN 0 ELSE Len(data[1][c])

\* accumulators the merge function is tried on
SampleData ==
  {EmptyResearchData,
   [EmptyResearchData EXCEPT !.courses = Courses12, !.competitors = <<1>>,
                             !.curricula = <<5>>, !.reddit_posts = <<1, 1>>,
                             !.quora_answers = <<1>>, !.podcasts = <<1>>,
                             !.blogs = <<1>>, !.trending_topics = <<1, 2>>,
                             !.lesson_frequency = <<1>>,
                             !.module_inventory = <<1>>]}

\* one merge, for every registered tool and every value it returns,
\* leaves no category shorter
MergeNeverShrinks ==
  \A current \in SampleData : \A tool_name \in TOOLS :
    \A tool_data \in ToolValues(tool_name) \cup {NoData} :
      \A c \in ListCategories :
        Len(update_research_data(current, tool_name, tool_data)[c])
          >= Len(current[c])

\* C4: for every list category the item count held for the session never
\* gets smaller: not in the session store, not when a turn loads it into
\* the state, not while the graph runs, and not by a single merge.
C4_MergeMonotone ==
  [][/\ MergeNeverShrinks
     /\ \A c \in ListCategories :
          /\ Count(db'.row.research_data, c) >= Count(db.row.research_data, c)
          /\ (pc = "idle" /\ pc' = "entry")
               => Len(state'.research_data[c]) = Count(db.row.research_data, c)
          /\ (pc # "idle" /\ pc' # "idle")
               => Len(state'.research_data[c]) >= Len(state.research_data[c])
          /\ (pc' = "idle" /\ pc # "idle")
               => Count(db'.row.research_data, c)
                    >= Len(state.research_data[c])]_vars

\* a third turn has been saved with the 12 courses of the turn before and
\* 3 more
C4_Witness ==
  /\ pc = "idle"
  /\ turns = 3
  /\ Count(db.row.research_data, "courses") = 15
  /\ Count(session_cache, "courses") = 15

\* C5: Reflection on a failed tool result leaves research_data (state,
\* cache and what the turn will save) unchanged, reports is_sufficient =
\* false and adds exactly 1 to retry_count.
C5_FailedResultFrame ==
  [][(/\ pc = "reflection"
      /\ events' # events
      /\ state.current_tool_result # None
      /\ ~state.current_tool_result[1].success)
       => /\ state'.research_data = state.research_data
          /\ session_cache' = session_cache
          /\ tracked'.research_data = tracked.research_data
          /\ db' = db
          /\ state'.reflection_result # None
          /\ ~state'.reflection_result[1].is_sufficient
          /\ state'.retry_count = state.retry_count + 1]_vars

\* Reflection has just handled a failed result while data was already held
C5_Witness ==
  /\ LastNode = "reflection"
  /\ state.current_tool_result # None
  /\ ~state.current_tool_result[1].success
  /\ state.retry_count = 2
  /\ session_cache # None
  /\ Len(state.research_data.competitors) > 0

\* C6: ToolExecutor never raises: with no tool call, an unknown tool name or
\* a tool that throws, the result is success = false, data = null and an
\* error text, and the next node is Reflection.
C6_ToolExecutorCaptures ==
  /\ \A outcome \in execute_tool("search_google") :
       tool_executor_node(InitialState, outcome).current_tool_result
         = Some(ToolResult("unknown", FALSE, NoData, "No tool call specified"))
  /\ LastNode = "tool_executor"
       => /\ last_route = "reflection"
          /\ state.current_tool_result # None
          /\ state.current_tool_result[1].tool_name
               = state.current_tool_call[1].name
          /\ state.current_tool_result[1].tool_name \notin TOOLS
               => ~state.current_tool_result[1].success
          /\ ~state.current_tool_result[1].success
               => /\ state.current_tool_result[1].data = NoData
                  /\ state.current_tool_result[1].error # "None"
          /\ state.current_tool_result[1].success
               => state.current_tool_result[1].error = "None"

\* ToolExecutor has just captured the failure of an unregistered tool
C6_Witness ==
  /\ LastNode = "tool_executor"
  /\ state.current_tool_result # None
  /\ state.current_tool_result[1].tool_name = "no_such_tool"
  /\ ~state.current_tool_result[1].success
  /\ pc = "reflection"

\* C7: with at least 10 courses held after a Reflection step the router
\* goes to Response, also when the verdict is is_sufficient = false.
C7_CourseFloor ==
  (AfterReflection /\ Len(state.research_data.courses) >= 10)
    => last_route = "response"

\* 12 courses were held, 3 more arrived, and the verdict was insufficient
C7_Witness ==
  /\ AfterReflection
  /\ Len(state.research_data.courses) = 15
  /\ Count(loaded.research_data, "courses") = 12
  /\ state.reflection_result # None
  /\ ~state.reflection_result[1].is_sufficient
  /\ last_route = "response"

(***************************************************************************)
(* route_entry as a function of its inputs: every combination of courses,  *)
(* plan, clarification stage and awaiting flag, with the tool_call_count   *)
(* of a fresh AgentState.                                                  *)
(***************************************************************************)
EntryRows ==
  [research_plan : {None, Some(ResearchPlan("t_hvac", Providers, FALSE)),
                    Some(ResearchPlan("t_hvac", Providers, TRUE))},
   clarification_state :
     {None} \cup {Some(ClarificationState(stage, 1, stage = "confirmed")) :
                    stage \in {"discovery", "presenting_plan", "refining",
                               "confirmed"}},
   research_data :
     {None, Some([EmptyResearchData EXCEPT !.courses = <<1>>]),
      Some([EmptyResearchData EXCEPT !.courses = Courses12])},
   industry : {"t_hvac"}]

EntryInit ==
  /\ \E row \in EntryRows, awaiting \in BOOLEAN :
       /\ db = [messages |-> <<"user", "assistant", "user">>, row |-> row]
       /\ loaded = row
       /\ state = [TurnState(row, <<"user", "assistant", "user">>)
                     EXCEPT !.awaiting_clarification = awaiting]
  /\ session_cache = None
  /\ request_message = "m_ok"
  /\ pc = "entry"
  /\ steps = 0
  /\ events = <<>>
  /\ last_route = "none"
  /\ tracked = NoTracked
  /\ final_response = FALSE
  /\ turns = 1
  /\ successes = 0
  /\ completion = "None"
  /\ stream = NoStream
  /\ flight = NoFlight
  /\ client = NoClient
  /\ overlap = NoOverlap
  /\ edit = NoEdit
  /\ progress = NoProgress
  /\ deep = NoDeep
  /\ orch = NoOrch
  /\ fanout = NoFanout
  /\ serp = NoSerp

EntryNext ==
  Entry

EntrySpec ==
  EntryInit /\ [][EntryNext]_vars

\* the inputs of the rule, read off the state
HasCourses ==
  Len(state.research_data.courses) >= 1

PlanConfirmed ==
  state.research_plan # None /\ state.research_plan[1].is_confirmed

StageIs(stages) ==
  state.clarification # None /\ state.clarification[1].stage \in stages

AwaitingReply ==
  /\ state.awaiting_clarification
  /\ StageIs({"presenting_plan", "refining", "discovery"})

ClassifierRows ==
  [research_plan : {Some(ResearchPlan(t, sel, FALSE)) :
                      t \in {"t_hvac", "t_learn_python"}, sel \in Selections},
   clarification_state :
     {Some(ClarificationState("presenting_plan", 1, FALSE)),
      Some(ClarificationState("refining", 2, FALSE)),
      Some(ClarificationState("refining", 3, FALSE))},
   research_data : {Some(EmptyResearchData)},
   industry : {"t_hvac", "t_learn_python"}]

ClassifierInit ==
  /\ \E row \in ClassifierRows, m \in MessageIds :
       /\ row.industry = row.research_plan[1].industry
       /\ db = [messages |-> <<"user", "assistant", "user">>, row |-> row]
       /\ loaded = row
       /\ state = TurnState(row, <<"user", "assistant", "user">>)
       /\ request_message = m
       /\ tracked = [research_plan |-> row.research_plan,
                     clarification |-> row.clarification_state,
                     research_data |-> row.research_data,
                     industry |-> row.industry]
  /\ session_cache = None
  /\ pc = "clarification"
  /\ steps = 1
  /\ events = <<"entry">>
  /\ last_route = "clarification"
  /\ final_response = FALSE
  /\ turns = 2
  /\ successes = 0
  /\ completion = "None"
  /\ stream = NoStream
  /\ flight = NoFlight
  /\ client = NoClient
  /\ overlap = NoOverlap
  /\ edit = NoEdit
  /\ progress = NoProgress
  /\ deep = NoDeep
  /\ orch = NoOrch
  /\ fanout = NoFanout
  /\ serp = NoSerp

ClassifierNext ==
  Clarification

ClassifierSpec ==
  ClassifierInit /\ [][ClassifierNext]_vars

\* the messages of the model, read by hand: those that contain an approval
\* word, those that contain a feedback keyword, those of 50 characters or
\* more
ApprovalMessages ==
  {"m_ok", "m_looks_good", "m_proceed", "m_ok_remove", "m_long_yes"}

FeedbackKeywordMessages ==
  {"m_ok_remove"}

LongMessages ==
  {"m_long_yes"}

\* the Clarification node took the reply as the confirmation of the plan
TakenAsConfirm ==
  /\ LastNode = "clarification"
  /\ state.clarification # None
  /\ state.clarification[1].stage = "confirmed"
  /\ state.research_plan # None
  /\ state.research_plan[1].is_confirmed

\* the Clarification node took the reply as feedback and presented the plan
TakenAsFeedback ==
  /\ LastNode = "clarification"
  /\ state.clarification # None
  /\ state.clarification[1].stage = "refining"
  /\ state.clarification[1].iteration = loaded.clarification_state[1].iteration + 1
  /\ state.research_plan # None
  /\ ~state.research_plan[1].is_confirmed

\* C9: a reply is taken as confirmation only if it is shorter than 50
\* characters, has an approval pattern and no feedback keyword; "ok",
\* "looks good" and "proceed" confirm, "ok but remove provider X" and every
\* long or ambiguous reply is feedback.
C9_ConfirmationClassifier ==
  /\ Len(Chars["m_long_yes"]) >= 50
  /\ LastNode = "clarification"
       => /\ TakenAsConfirm
               <=> /\ request_message \in ApprovalMessages
                   /\ request_message \notin FeedbackKeywordMessages
                   /\ request_message \notin LongMessages
          /\ request_message \in {"m_ok", "m_looks_good", "m_proceed"}
               => TakenAsConfirm
          /\ request_message \in {"m_ok_remove", "m_long_yes", "m_maybe"}
               => TakenAsFeedback

\* "ok but remove provider X" was taken as feedback on a presented plan
C9_Witness ==
  /\ request_message = "m_ok_remove"
  /\ TakenAsFeedback
  /\ loaded.clarification_state[1].stage = "presenting_plan"

(***************************************************************************)
(* A new topic after a confirmed plan, over the turns of a session.        *)
(***************************************************************************)
\* the turn that has reached End and is about to be saved was loaded with a
\* confirmed plan on HVAC and carried the message "I want a course on Python
\* programming"
NewTopicAfterConfirmedPlan ==
  /\ pc = "end"
  /\ loaded.research_plan # None
  /\ loaded.research_plan[1].is_confirmed
  /\ loaded.research_plan[1].industry = "t_hvac"
  /\ request_message = "m_python"

\* C10: a message on a clearly different topic, sent to a session whose plan
\* is confirmed, resets the clarification stage to discovery and clears the
\* plan, and keeps the message history.
C10_NewTopicReset ==
  [][NewTopicAfterConfirmedPlan
       => /\ db'.row.clarification_state # None
          /\ db'.row.clarification_state[1].stage = "discovery"
          /\ db'.row.research_plan = None
          /\ Len(db'.messages) >= Len(db.messages)]_vars
(***************************************************************************)
(* The clarification stage over the turns of a session.                    *)
(***************************************************************************)
\* position of a stored clarification state in the order of the stages
StageRank(clarification_state) ==
  IF clarification_state = None THEN 0
  ELSE CASE clarification_state[1].stage = "discovery" -> 0
         [] clarification_state[1].stage = "presenting_plan" -> 1
         [] clarification_state[1].stage = "refining" -> 2
         [] clarification_state[1].stage = "confirmed" -> 3

\* the Clarification node of this turn took the message for a new topic
NewTopicDetected ==
  /\ \E i \in 1..Len(events) : events[i] = "clarification"
  /\ loaded.research_plan # None
  /\ NewTopicTable[request_message][loaded.research_plan[1].industry]

\* C11: over the turns of a session the stored stage never moves backwards
\* in the order discovery, presenting_plan, refining, confirmed, except in a
\* turn whose message was detected as a new topic, and a plan that was
\* confirmed stays confirmed.
C11_StageOrder ==
  [][/\ StageRank(db'.row.clarification_state)
          >= StageRank(db.row.clarification_state)
        \/ NewTopicDetected
     /\ StageRank(db.row.clarification_state) = 3
          => StageRank(db'.row.clarification_state) = 3]_vars

\* a turn is about to save a plan presented anew because a new topic was
\* detected, after the plan before it had been refined
C11_Witness ==
  /\ pc = "end"
  /\ NewTopicDetected
  /\ StageRank(loaded.clarification_state) = 2
  /\ StageRank(tracked.clarification) = 1
(***************************************************************************)
(* The turn in which a plan is presented.                                  *)
(***************************************************************************)
\* the Clarification node of this turn presented a plan: the first one
\* after a discovery, or a revised one after feedback
PlanPresented ==
  /\ \E i \in 1..Len(events) : events[i] = "clarification"
  /\ state.clarification # None
  /\ state.clarification[1].stage \in {"presenting_plan", "refining"}

\* C12: a turn in which Clarification presents a plan ends at End with
\* awaiting_clarification set; no Reasoning, ToolExecutor, Reflection or
\* Response step runs in it.
C12_PresentedPlanHalts ==
  PlanPresented
    => /\ events = <<"entry", "clarification">>
       /\ pc = "end"
       /\ last_route = "end"
       /\ state.awaiting_clarification
       /\ final_response

\* a revised plan has just been presented after feedback
C12_Witness ==
  /\ PlanPresented
  /\ state.clarification[1].stage = "refining"
  /\ request_message = "m_ok_remove"
  /\ pc = "end"
(***************************************************************************)
(* The turn in which the plan is confirmed.                                *)
(***************************************************************************)
\* the Clarification node of this turn got a reply to a presented plan that
\* the classifier takes as confirmation
ReplyConfirms ==
  /\ Len(events) >= 2
  /\ events[2] = "clarification"
  /\ loaded.clarification_state # None
  /\ loaded.clarification_state[1].stage \in {"presenting_plan", "refining"}
  /\ loaded.research_plan # None
  /\ ConfirmTable[request_message]
  /\ ~NewTopicDetected

ReasoningRows ==
  [research_plan : {Some(ResearchPlan(t, sel, TRUE)) :
                      t \in {"t_hvac", "t_learn_python"}, sel \in Selections},
   clarification_state : {Some(ClarificationState("confirmed", 1, TRUE))},
   research_data :
     {Some(EmptyResearchData),
      Some([EmptyResearchData EXCEPT !.courses = <<1, 2, 3>>]),
      Some([EmptyResearchData EXCEPT !.courses = Courses12])},
   industry : {"t_hvac", "t_learn_python"}]

ReasoningInit ==
  /\ \E row \in ReasoningRows :
       /\ row.industry = row.research_plan[1].industry
       /\ db = [messages |-> <<"user", "assistant", "user", "user">>,
                row |-> row]
       /\ loaded = row
       /\ state = TurnState(row, <<"user", "assistant", "user", "user">>)
       /\ tracked = [research_plan |-> row.research_plan,
                     clarification |-> row.clarification_state,
                     research_data |-> row.research_data,
                     industry |-> row.industry]
  /\ request_message = "m_python"
  /\ session_cache = None
  /\ pc = "reasoning"
  /\ steps = 1
  /\ events = <<"entry">>
  /\ last_route = "reasoning"
  /\ final_response = FALSE
  /\ turns = 3
  /\ successes = 0
  /\ completion = "None"
  /\ stream = NoStream
  /\ flight = NoFlight
  /\ client = NoClient
  /\ overlap = NoOverlap
  /\ edit = NoEdit
  /\ progress = NoProgress
  /\ deep = NoDeep
  /\ orch = NoOrch
  /\ fanout = NoFanout
  /\ serp = NoSerp

ReasoningNext ==
  ReasoningOn(Completions)

ReasoningSpec ==
  ReasoningInit /\ [][ReasoningNext]_vars

\* completions that are not one of the three decision shapes
UnparsedCompletions ==
  {"not_json", "no_action", "call_tool_no_name", "call_tool_no_arguments",
   "not_object"}

\* C14: whatever completion text the Reasoning step receives (no JSON, JSON
\* without an action, call_tool without a tool name or without arguments,
\* JSON that is no object), the step does not raise: it degrades to respond
\* and the turn goes on to Response.
C14_ParseFailureDegrades ==
  [][(pc = "reasoning" /\ completion' \in UnparsedCompletions)
       => /\ pc' = "response"
          /\ last_route' = "response"
          /\ state'.next_node = "response"]_vars
(***************************************************************************)
(* The counters of the AgentState over the turns of a session.             *)
(***************************************************************************)
\* a turn that went from Entry straight to Reasoning (no Clarification, so
\* no discovery in it) in a session for which an earlier turn merged the
\* courses of a successful tool call, whose tool_call_count was then at
\* least 1
LaterResearchTurn ==
  /\ pc = "reasoning"
  /\ events = <<"entry">>
  /\ Count(loaded.research_data, "courses") > 0

\* C15: over the turns of a session tool_call_count and retry_count never
\* decrease; they are 0 again only in a turn that restarts discovery. So a
\* later turn without discovery still holds the tool calls counted before.
C15_CountersMonotone ==
  LaterResearchTurn => state.tool_call_count >= 1
(***************************************************************************)
(* chat.py: the event stream of one turn.  run_graph puts the step events  *)
(* of the graph, then the error if it failed, then the done sentinel on    *)
(* event_queue; run_keepalive forwards tool progress and keepalives while  *)
(* the graph runs; the consumer loop of event_generator turns the queue    *)
(* into the output of the stream.  Nothing but the event loop switches     *)
(* between the three, so each action runs from one await to the next.      *)
(***************************************************************************)
Event(type, n) ==
  [type |-> type, n |-> n]

\* variant: the queue hands out its newest item
queue_get_newest_first(queue) ==
  [item |-> queue[Len(queue)], rest |-> SubSeq(queue, 1, Len(queue) - 1)]

\* asyncio.Queue.get: the oldest item
queue_get(queue) ==
  [item |-> Head(queue), rest |-> Tail(queue)]

\* chat.py 142-172, 213-215: queues set up, callback set, both tasks started
StreamInit ==
  /\ db = [messages |-> <<"user">>, row |-> EmptyRow]
  /\ session_cache = None
  /\ loaded = EmptyRow
  /\ request_message = "m_hvac"
  /\ state = TurnState(EmptyRow, <<"user">>)
  /\ pc = "entry"
  /\ steps = 0
  /\ events = <<>>
  /\ last_route = "none"
  /\ tracked = NoTracked
  /\ final_response = FALSE
  /\ turns = 1
  /\ successes = 0
  /\ completion = "None"
  /\ stream = [NoStream EXCEPT !.graph_task = "running",
                               !.keepalive_task = "running",
                               !.subscribed = TRUE,
                               !.consumer = "loop"]
  /\ flight = NoFlight
  /\ client = NoClient
  /\ overlap = NoOverlap
  /\ edit = NoEdit
  /\ progress = NoProgress
  /\ deep = NoDeep
  /\ orch = NoOrch
  /\ fanout = NoFanout
  /\ serp = NoSerp

\* run_graph: the graph yields the output of one more node
GraphStep ==
  /\ stream.graph_task = "running"
  /\ stream.produced < MaxStepEvents
  /\ stream' = [stream EXCEPT
                  !.produced = @ + 1,
                  !.queue = Append(@, Event("graph", stream.produced + 1))]
  /\ UNCHANGED <<turnvars, but_stream>>

\* a running tool reports progress through the callback of the turn
ToolProgress ==
  /\ stream.graph_task = "running"
  /\ stream.subscribed
  /\ stream.reported < MaxProgress
  /\ stream' = [stream EXCEPT !.progress_queue = @ + 1, !.reported = @ + 1]
  /\ UNCHANGED <<turnvars, but_stream>>

\* run_graph: the graph ends, or raises; the finally block sets
\* graph_complete and puts the done sentinel
GraphEnd ==
  /\ stream.graph_task = "running"
  /\ \E failed \in BOOLEAN :
       stream' = [stream EXCEPT
                    !.graph_task = "done",
                    !.graph_complete = TRUE,
                    !.queue = IF failed
                              THEN @ \o <<Event("error", 0), Event("done", 0)>>
                              ELSE Append(@, Event("done", 0))]
  /\ UNCHANGED <<turnvars, but_stream>>

\* run_keepalive: one pass of the loop, up to its sleep
KeepaliveTick ==
  /\ stream.keepalive_task = "running"
  /\ \/ /\ stream.graph_complete
        /\ stream' = [stream EXCEPT !.keepalive_task = "ended"]
     \/ /\ ~stream.graph_complete
        /\ \E due \in BOOLEAN :
             /\ due => stream.timers < MaxTimerEvents
             /\ due \/ stream.progress_queue > 0
             /\ stream' =
                  [stream EXCEPT
                     !.progress_queue = 0,
                     !.timers = IF due THEN @ + 1 ELSE @,
                     !.queue =
                        @ \o [i \in 1..stream.progress_queue |->
                                Event("progress", 0)]
                          \o (IF due THEN <<Event("keepalive", 0)>>
                              ELSE <<>>)]
  /\ UNCHANGED <<turnvars, but_stream>>

\* Task.cancel: a task that has not ended gets CancelledError at the await
\* it is suspended in and runs no further
cancel(task) ==
  IF task = "running" THEN "cancelled" ELSE task

\* the consumer loop: one event taken from the queue and handled; the done
\* sentinel leaves the loop, which cancels the keepalive task at once
Consume ==
  /\ stream.consumer = "loop"
  /\ stream.queue # <<>>
  /\ LET got == queue_get(stream.queue)
         type == got.item.type
     IN stream' =
          [stream EXCEPT
             !.queue = got.rest,
             !.consumer = CASE type = "done" -> "cleanup"
                            [] type = "error" -> "break"
                            [] OTHER -> @,
             !.keepalive_task = IF type = "done" THEN cancel(@) ELSE @,
             !.out = CASE type = "done" -> @
                       [] type = "error" -> Append(@, Event("error", 0))
                       [] type = "keepalive" -> Append(@, Event("keepalive", 0))
                       [] type = "progress" -> Append(@, Event("thinking", 0))
                       [] type = "graph" ->
                            @ \o <<Event("thinking", got.item.n),
                                   Event("node", got.item.n)>>]
  /\ UNCHANGED <<turnvars, but_stream>>

\* the consumer loop: nothing arrived within the timeout
ConsumeTimeout ==
  /\ stream.consumer = "loop"
  /\ stream.queue = <<>>
  /\ IF ~stream.graph_complete
     THEN /\ stream.timers < MaxTimerEvents
          /\ stream' = [stream EXCEPT !.timers = @ + 1,
                                      !.out = Append(@, Event("ping", 0))]
     ELSE stream' = [stream EXCEPT !.consumer = "cleanup",
                                   !.keepalive_task = cancel(@)]
  /\ UNCHANGED <<turnvars, but_stream>>

\* the consumer resumes after the error event it sent and leaves the loop
Break ==
  /\ stream.consumer = "break"
  /\ stream' = [stream EXCEPT !.consumer = "cleanup",
                              !.keepalive_task = cancel(@)]
  /\ UNCHANGED <<turnvars, but_stream>>

\* chat.py 338-347: the cancelled keepalive task has been awaited; the
\* progress callback is unset and the progress queue removed
Cleanup ==
  /\ stream.consumer = "cleanup"
  /\ stream' = [stream EXCEPT !.subscribed = FALSE, !.consumer = "save"]
  /\ UNCHANGED <<turnvars, but_stream>>

\* chat.py 349-377: the turn is saved and the complete event sent, or the
\* save raises and the handler of event_generator sends an error event
SaveAndComplete ==
  /\ stream.consumer = "save"
  /\ \E saved \in BOOLEAN :
       stream' = [stream EXCEPT
                    !.consumer = "closed",
                    !.out = Append(@, IF saved THEN Event("complete", 0)
                                      ELSE Event("error", 1))]
  /\ UNCHANGED <<turnvars, but_stream>>

\* the client disconnects: the generator is cancelled where it waits; it has
\* no finally block, so nothing else happens
ClientDisconnect ==
  /\ stream.consumer \in {"loop", "break", "cleanup", "save"}
  /\ stream' = [stream EXCEPT !.consumer = "cancelled"]
  /\ UNCHANGED <<turnvars, but_stream>>

StreamNext ==
  \/ GraphStep
  \/ ToolProgress
  \/ GraphEnd
  \/ KeepaliveTick
  \/ Consume
  \/ ConsumeTimeout
  \/ Break
  \/ Cleanup
  \/ SaveAndComplete
  \/ ClientDisconnect

StreamSpec ==
  StreamInit /\ [][StreamNext]_vars

\* the step numbers of the step events of the output, in output order
EmittedSteps ==
  LET nodes == SelectSeq(stream.out, LAMBDA e : e.type = "node")
  IN [i \in 1..Len(nodes) |-> nodes[i].n]

\* the consumer has left its loop and was not cut off by the client
LoopLeft ==
  stream.consumer \in {"cleanup", "save", "closed"}

\* C16: the output of a turn carries every step event of the producer, in
\* the order produced, all before the terminal event; after the done
\* sentinel is consumed the stream emits nothing but its terminal event, and
\* the keepalive task has ended.
C16_StreamTermination ==
  /\ [](/\ EmittedSteps = [i \in 1..Len(EmittedSteps) |-> i]
        /\ Len(EmittedSteps) <= stream.produced
        /\ stream.consumer \in {"break", "cleanup", "save", "closed"}
             => Len(EmittedSteps) = stream.produced
        /\ LoopLeft => stream.keepalive_task \in {"ended", "cancelled"})
  /\ [][stream.consumer # "loop" /\ stream'.out # stream.out
          => /\ stream.consumer = "save"
             /\ stream'.consumer = "closed"
             /\ \E e \in {Event("complete", 0), Event("error", 1)} :
                  stream'.out = Append(stream.out, e)]_vars

\* three step events, a keepalive in between, then the terminal event, with
\* the keepalive task cancelled
C16_Witness ==
  /\ stream.consumer = "closed"
  /\ EmittedSteps = <<1, 2, 3>>
  /\ stream.out[Len(stream.out)] = Event("complete", 0)
  /\ \E i \in 1..Len(stream.out) : stream.out[i].type = "keepalive"
  /\ stream.keepalive_task = "cancelled"

\* the graph failed and the stream sent its error event
GraphErrorSent ==
  /\ stream.consumer = "closed"
  /\ \E i \in 1..Len(stream.out) : stream.out[i] = Event("error", 0)

\* C17: when the step producer fails the stream emits exactly one error
\* event and nothing after it.
C17_ErrorIsLast ==
  GraphErrorSent
    => /\ stream.out[Len(stream.out)] = Event("error", 0)
       /\ Len(SelectSeq(stream.out, LAMBDA e : e.type = "error")) = 1

\* C18: once the client has disconnected, neither the step producer nor
\* the keepalive task is still running and the progress subscription of the
\* turn is released.
C18_CancelReleases ==
  stream.consumer = "cancelled"
    => /\ stream.graph_task # "running"
       /\ stream.keepalive_task # "running"
       /\ ~stream.subscribed

(***************************************************************************)
(* Two chat requests of one session.  The endpoint takes no lock and keeps *)
(* no record of a running turn, so a second request starts while the first *)
(* is in flight; both graphs run as tasks of one event loop and their      *)
(* Reflection nodes merge into the one entry of _session_research_data.    *)
(***************************************************************************)
Turns ==
  {"a", "b"}

InFlight ==
  {t \in Turns : flight.turn[t] \notin {"idle", "done"}}

\* the Reflection merges a turn has performed
MergesOf(t) ==
  Len(SelectSeq(flight.merges, LAMBDA m : m.turn = t))

FlightInit ==
  /\ db = [messages |-> <<"user">>, row |-> EmptyRow]
  /\ session_cache = None
  /\ loaded = EmptyRow
  /\ request_message = "m_hvac"
  /\ state = TurnState(EmptyRow, <<"user">>)
  /\ pc = "entry"
  /\ steps = 0
  /\ events = <<>>
  /\ last_route = "none"
  /\ tracked = NoTracked
  /\ final_response = FALSE
  /\ turns = 1
  /\ successes = 0
  /\ completion = "None"
  /\ stream = NoStream
  /\ flight = NoFlight
  /\ client = NoClient
  /\ overlap = NoOverlap
  /\ edit = NoEdit
  /\ progress = NoProgress
  /\ deep = NoDeep
  /\ orch = NoOrch
  /\ fanout = NoFanout
  /\ serp = NoSerp

\* chat.py 65-90: the request is accepted whatever else runs for the session
StartFlight(t) ==
  /\ flight.turn[t] = "idle"
  /\ flight' = [flight EXCEPT !.turn[t] = "reasoning"]
  /\ UNCHANGED <<turnvars, but_flight>>

\* the turn runs a tool and its Reflection node awaits the validation call
AwaitReflection(t) ==
  /\ flight.turn[t] = "reasoning"
  /\ MergesOf(t) < MaxMerges
  /\ flight' = [flight EXCEPT !.turn[t] = "reflection"]
  /\ UNCHANGED <<turnvars, but_flight>>

\* reflection.py 95-106: the validation call returned; the entry of the
\* session is read, extended with the courses of this turn and stored, with
\* no await in between
Merge(t) ==
  /\ flight.turn[t] = "reflection"
  /\ flight' = [flight EXCEPT
                  !.turn[t] = "reasoning",
                  !.accumulator = Append(@, <<t, MergesOf(t) + 1>>),
                  !.merges = Append(@, [turn |-> t, in_flight |-> InFlight])]
  /\ UNCHANGED <<turnvars, but_flight>>

\* the turn responds and its stream closes
FinishFlight(t) ==
  /\ flight.turn[t] = "reasoning"
  /\ flight' = [flight EXCEPT !.turn[t] = "done"]
  /\ UNCHANGED <<turnvars, but_flight>>

FlightNext ==
  \E t \in Turns :
    \/ StartFlight(t)
    \/ AwaitReflection(t)
    \/ Merge(t)
    \/ FinishFlight(t)

FlightSpec ==
  FlightInit /\ [][FlightNext]_vars

\* C19: the accumulator of a session is never mutated by two turns that are
\* in flight at the same time: a turn that has merged has ended before
\* another turn merges.
C19_NoConcurrentMerges ==
  \A i, j \in 1..Len(flight.merges) :
    i < j /\ flight.merges[i].turn # flight.merges[j].turn
      => flight.merges[i].turn \notin flight.merges[j].in_flight

(***************************************************************************)
(* services/anthropic.py: ClaudeClient.complete.  Time is in seconds.      *)
(***************************************************************************)
\* self._max_retries
max_retries ==
  3

\* self._retry_delay
retry_delay ==
  2

\* the timeout of asyncio.wait_for around one request
call_timeout ==
  120

\* what the API does with one request: the error it raises, if any, and the
\* time it takes to answer
ApiResults ==
  {"ok", "rate_limit", "overloaded", "api_error", "other"}

Latencies ==
  {1, 119, 120, 500}

\* asyncio.wait_for: the request is cut off at the timeout
wait_for(result, latency, timeout) ==
  IF latency >= timeout
  THEN [outcome |-> "timeout", took |-> timeout]
  ELSE [outcome |-> result, took |-> latency]

\* variant: every failure of the API is retried
is_retryable_every_api_error(outcome) ==
  outcome \in {"timeout", "rate_limit", "overloaded", "api_error"}

\* the except clauses that sleep and go on with the loop: TimeoutError,
\* RateLimitError, and an APIError whose text contains "overloaded"
is_retryable(outcome) ==
  outcome \in {"timeout", "rate_limit", "overloaded"}

ClientInit ==
  /\ db = [messages |-> <<"user">>, row |-> EmptyRow]
  /\ session_cache = None
  /\ loaded = EmptyRow
  /\ request_message = "m_hvac"
  /\ state = TurnState(EmptyRow, <<"user">>)
  /\ pc = "entry"
  /\ steps = 0
  /\ events = <<>>
  /\ last_route = "none"
  /\ tracked = NoTracked
  /\ final_response = FALSE
  /\ turns = 1
  /\ successes = 0
  /\ completion = "None"
  /\ stream = NoStream
  /\ flight = NoFlight
  /\ client = NoClient
  /\ overlap = NoOverlap
  /\ edit = NoEdit
  /\ progress = NoProgress
  /\ deep = NoDeep
  /\ orch = NoOrch
  /\ fanout = NoFanout
  /\ serp = NoSerp

\* complete is called: last_error = None, the loop starts with attempt 0
Complete ==
  /\ client.pc = "idle"
  /\ client' = [client EXCEPT !.pc = "request"]
  /\ UNCHANGED <<turnvars, but_client>>

\* one pass of the loop up to its return, its raise or its sleep
Request ==
  /\ client.pc = "request"
  /\ \E result \in ApiResults, latency \in Latencies :
       LET got == wait_for(result, latency, call_timeout)
       IN client' =
            [client EXCEPT
               !.calls = @ + 1,
               !.longest = IF got.took > @ THEN got.took ELSE @,
               !.failures = IF got.outcome = "ok" THEN @
                            ELSE Append(@, got.outcome),
               !.last_error = IF got.outcome \in {"ok", "other"} THEN @
                              ELSE got.outcome,
               !.pc = CASE got.outcome = "ok" -> "returned"
                        [] is_retryable(got.outcome) -> "sleep"
                        [] OTHER -> "raised"]
  /\ UNCHANGED <<turnvars, but_client>>

\* the sleep of a retried failure, then the next pass or, after the last
\* one, the raise of last_error
Backoff ==
  /\ client.pc = "sleep"
  /\ client' = [client EXCEPT
                  !.waited = @ + retry_delay * (client.attempt + 1),
                  !.waits = Append(@, retry_delay * (client.attempt + 1)),
                  !.attempt = @ + 1,
                  !.pc = IF client.attempt + 1 < max_retries THEN "request"
                         ELSE "raised"]
  /\ UNCHANGED <<turnvars, but_client>>

ClientNext ==
  \/ Complete
  \/ Request
  \/ Backoff

ClientSpec ==
  ClientInit /\ [][ClientNext]_vars

\* the failures seen before the last one: each was followed by a request
EarlierFailures ==
  {client.failures[i] : i \in 1..(Len(client.failures) - 1)}

\* C20: a completion call makes at most 3 requests, each cut off at the
\* per-call timeout; only timeouts, rate limits and overload responses are
\* followed by another request, and any other failure is raised at once.
C20_BoundedRetries ==
  /\ client.calls <= 3
  /\ client.longest <= call_timeout
  /\ EarlierFailures \subseteq {"timeout", "rate_limit", "overloaded"}
  /\ /\ client.failures # <<>>
     /\ client.failures[Len(client.failures)]
          \notin {"timeout", "rate_limit", "overloaded"}
     => /\ client.pc = "raised"
        /\ client.calls = Len(client.failures)

\* a timeout and a rate limit were retried and the third request failed
\* with an error that is not retried: it is raised after three requests
C20_Witness ==
  /\ client.pc = "raised"
  /\ client.failures = <<"timeout", "rate_limit", "api_error">>
  /\ client.longest = call_timeout
  /\ client.waited = 6

(***************************************************************************)
(* services/serpapi.py: SerpAPIClient.search.                              *)
(***************************************************************************)
\* self._max_retries
search_max_retries ==
  3

\* self._retry_delay
search_retry_delay ==
  1

\* what one request ends in: a response, status 429, another error status,
\* the 30 s timeout of the request, or another network error
SearchResults ==
  {"ok", "rate_limit", "http_error", "timeout", "network"}

\* search is called; without an API key it returns mock results
Search ==
  /\ serp.pc = "idle"
  /\ \E api_key \in BOOLEAN :
       serp' = IF api_key THEN [serp EXCEPT !.pc = "request"]
               ELSE [serp EXCEPT !.pc = "returned", !.result = "mock"]
  /\ UNCHANGED <<turnvars, but_serp>>

\* one pass of the loop up to its return, its break or its sleep; after the
\* loop the function returns the empty list
SearchRequest ==
  /\ serp.pc = "request"
  /\ \E outcome \in SearchResults :
       serp' =
         IF outcome = "ok"
         THEN [serp EXCEPT !.pc = "returned", !.result = "results"]
         ELSE IF outcome = "http_error"
         THEN [serp EXCEPT !.failures = Append(@, outcome),
                           !.pc = "returned", !.result = "empty"]
         ELSE IF outcome = "rate_limit"
                   \/ serp.attempt < search_max_retries - 1
         THEN [serp EXCEPT !.failures = Append(@, outcome), !.pc = "sleep"]
         ELSE [serp EXCEPT !.failures = Append(@, outcome),
                           !.pc = "returned", !.result = "empty"]
  /\ UNCHANGED <<turnvars, but_serp>>

\* the sleep after a failure, then the next pass or the end of the loop
SearchBackoff ==
  /\ serp.pc = "sleep"
  /\ LET last == serp.failures[Len(serp.failures)]
         wait_time == IF last = "rate_limit"
                      THEN search_retry_delay * (serp.attempt + 1)
                      ELSE search_retry_delay
     IN serp' =
          IF serp.attempt + 1 < search_max_retries
          THEN [serp EXCEPT !.waits = Append(@, wait_time),
                            !.attempt = @ + 1, !.pc = "request"]
          ELSE [serp EXCEPT !.waits = Append(@, wait_time),
                            !.attempt = @ + 1,
                            !.pc = "returned", !.result = "empty"]
  /\ UNCHANGED <<turnvars, but_serp>>

\* both clients, each making one call
RetryNext ==
  \/ Complete
  \/ Request
  \/ Backoff
  \/ Search
  \/ SearchRequest
  \/ SearchBackoff

RetrySpec ==
  ClientInit /\ [][RetryNext]_vars

\* every attempt of the search call failed with a timeout or a rate limit
SearchRetriesExhausted ==
  /\ serp.pc = "returned"
  /\ Len(serp.failures) = search_max_retries
  /\ \A i \in 1..Len(serp.failures) :
       serp.failures[i] \in {"timeout", "rate_limit"}

\* every attempt of the completion call failed with a timeout or a rate limit
CompletionRetriesExhausted ==
  /\ client.pc \in {"raised", "returned"}
  /\ Len(client.failures) = max_retries
  /\ \A i \in 1..Len(client.failures) :
       client.failures[i] \in {"timeout", "rate_limit"}

\* C21: a timeout or rate limit that persists through every attempt of the
\* completion client or of the search client is surfaced as an error and is
\* not turned into an empty result.
C21_PersistentFailureSurfaced ==
  /\ CompletionRetriesExhausted
       => client.pc = "raised" /\ client.last_error \in {"timeout", "rate_limit"}
  /\ SearchRetriesExhausted => serp.result # "empty"

\* C22: the waits between the attempts of a call grow exponentially: each
\* wait is at least double the one before.
C22_ExponentialBackoff ==
  /\ \A i \in 2..Len(client.waits) : client.waits[i] >= 2 * client.waits[i - 1]
  /\ \A i \in 2..Len(serp.waits) : serp.waits[i] >= 2 * serp.waits[i - 1]

(***************************************************************************)
(* tools/plan_discovery.py: discover_research_plan runs its three searches *)
(* as tasks of one asyncio.gather and builds the plan from what they       *)
(* return.                                                                 *)
(***************************************************************************)
\* what a branch finds when nothing goes wrong: up to MaxFound items
FoundLists ==
  {[i \in 1..n |-> i] : n \in 0..MaxFound}

\* _search_audience: the list returned when the search fails
default_audiences ==
  <<"Entry-level beginners", "Career changers", "Experienced practitioners">>

\* variant: every failing branch returns the empty list
search_branch_empty_on_failure(branch, failed, found) ==
  IF failed THEN <<>> ELSE found

\* _search_competitors, _search_certifications, _search_audience: the value
\* the branch returns; each catches every exception of its body
search_branch(branch, failed, found) ==
  IF ~failed THEN found
  ELSE IF branch = "audiences" THEN default_audiences
  ELSE <<>>

\* discover_research_plan is called: gather starts one task per branch
Discover ==
  /\ fanout.pc = "idle"
  /\ fanout' = [fanout EXCEPT !.pc = "gather",
                              !.task = [i \in 1..3 |-> "running"]]
  /\ UNCHANGED <<turnvars, but_fanout>>

\* one task ends, with what its branch found or after a failure in it
BranchEnds(i) ==
  /\ fanout.pc = "gather"
  /\ fanout.task[i] = "running"
  /\ \E failed \in BOOLEAN, found \in FoundLists :
       fanout' = [fanout EXCEPT
                    !.task[i] = IF failed THEN "failed" ELSE "done",
                    !.results[i] = search_branch(Branches[i], failed, found)]
  /\ UNCHANGED <<turnvars, but_fanout>>

\* gather returns once every task has ended; the plan is built
Gather ==
  /\ fanout.pc = "gather"
  /\ \A i \in 1..3 : fanout.task[i] # "running"
  /\ fanout' = [fanout EXCEPT
                  !.pc = "returned",
                  !.plan = Some([competitors |-> fanout.results[1],
                                 certifications |-> fanout.results[2],
                                 target_audiences |-> fanout.results[3],
                                 success |-> TRUE])]
  /\ UNCHANGED <<turnvars, but_fanout>>

FanoutNext ==
  \/ Discover
  \/ \E i \in 1..3 : BranchEnds(i)
  \/ Gather

FanoutSpec ==
  ClientInit /\ [][FanoutNext]_vars

\* the categories of the plan, in the order of Branches
PlanCategories ==
  LET plan == fanout.plan[1]
  IN <<plan.competitors, plan.certifications, plan.target_audiences>>

\* C23 as claimed: all branches run concurrently and are gathered before
\* the plan is built; a failing branch contributes no data to its category
\* and the discovery never fails, whichever branches fail.
C23_FailedBranchEmpty ==
  /\ fanout.pc = "gather" => \A i \in 1..3 : fanout.task[i] # "none"
  /\ fanout.pc = "returned"
       => /\ \A i \in 1..3 : fanout.task[i] \in {"done", "failed"}
          /\ fanout.plan[1].success
          /\ \A i \in 1..3 :
               fanout.task[i] = "failed" => PlanCategories[i] = <<>>

\* C23 as amended: a failing competitors or certifications branch
\* contributes the empty list, a failing audiences branch contributes the
\* three default audiences; the branches that did not fail contribute what
\* they found and the discovery never fails.
C23_FailedBranchDefault ==
  /\ fanout.pc = "gather" => \A i \in 1..3 : fanout.task[i] # "none"
  /\ fanout.pc = "returned"
       => /\ \A i \in 1..3 : fanout.task[i] \in {"done", "failed"}
          /\ fanout.plan[1].success
          /\ \A i \in 1..3 :
               IF fanout.task[i] = "failed"
               THEN PlanCategories[i] = IF Branches[i] = "audiences"
                                        THEN default_audiences ELSE <<>>
               ELSE PlanCategories[i] \in FoundLists

\* competitors and audiences failed, certifications found something
C23_Witness ==
  /\ fanout.pc = "returned"
  /\ fanout.task = <<"failed", "done", "failed">>
  /\ fanout.plan[1].competitors = <<>>
  /\ fanout.plan[1].certifications # <<>>
  /\ fanout.plan[1].target_audiences = default_audiences

(***************************************************************************)
(* services/research_orchestrator.py: CurriculumResearchOrchestrator.      *)
(* A dict is a function on its keys; a text is the sequence of its parts.  *)
(***************************************************************************)
\* class ResearchPhase: member name -> value
ResearchPhase ==
  [INITIAL |-> "initial", CLARIFICATION |-> "clarification",
   COMPETITIVE |-> "competitive", EXPERTISE |-> "expertise",
   SENTIMENT |-> "sentiment", SYNTHESIS |-> "synthesis",
   COMPLETE |-> "complete"]

\* ResearchPhase(value): the member with that value, or ValueError
PhaseOfValue(value) ==
  IF \E p \in DOMAIN ResearchPhase : ResearchPhase[p] = value
  THEN CHOOSE p \in DOMAIN ResearchPhase : ResearchPhase[p] = value
  ELSE "ValueError"

\* d.get(k, default)
Get(d, k, default) ==
  IF k \in DOMAIN d THEN d[k] ELSE default

\* d[k] = v
Put(d, k, v) ==
  [x \in DOMAIN d \cup {k} |-> IF x = k THEN v ELSE d[x]]

\* the messages sent to the orchestrator
OrchMessages ==
  {"m_hvac", "m_ok", "m_phase_2"}

OrchText ==
  [m \in OrchMessages |->
     IF m = "m_phase_2" THEN <<"g", "o", " ", "t", "o", " ", "p", "h", "a", "s", "e", " ", "2">>
     ELSE Chars[m]]

\* the continue_signals lists of the three feedback handlers
continue_signals ==
  [COMPETITIVE |->
    {<<"c", "o", "n", "t", "i", "n", "u", "e">>,
     <<"n", "e", "x", "t">>,
     <<"p", "r", "o", "c", "e", "e", "d">>,
     <<"l", "o", "o", "k", "s", " ", "g", "o", "o", "d">>,
     <<"m", "o", "v", "e", " ", "o", "n">>,
     <<"p", "h", "a", "s", "e", " ", "2">>,
     <<"e", "x", "p", "e", "r", "t", "i", "s", "e">>,
     <<"g", "o", " ", "a", "h", "e", "a", "d">>,
     <<"o", "k">>,
     <<"o", "k", "a", "y">>,
     <<"y", "e", "s">>,
     <<"g", "o", "o", "d">>,
     <<"g", "r", "e", "a", "t">>,
     <<"p", "e", "r", "f", "e", "c", "t">>},
   EXPERTISE |->
    {<<"c", "o", "n", "t", "i", "n", "u", "e">>,
     <<"n", "e", "x", "t">>,
     <<"p", "r", "o", "c", "e", "e", "d">>,
     <<"l", "o", "o", "k", "s", " ", "g", "o", "o", "d">>,
     <<"m", "o", "v", "e", " ", "o", "n">>,
     <<"p", "h", "a", "s", "e", " ", "3">>,
     <<"s", "e", "n", "t", "i", "m", "e", "n", "t">>,
     <<"g", "o", " ", "a", "h", "e", "a", "d">>,
     <<"o", "k">>,
     <<"o", "k", "a", "y">>,
     <<"y", "e", "s">>,
     <<"g", "o", "o", "d">>,
     <<"g", "r", "e", "a", "t">>,
     <<"p", "e", "r", "f", "e", "c", "t">>},
   SENTIMENT |->
    {<<"c", "o", "n", "t", "i", "n", "u", "e">>,
     <<"n", "e", "x", "t">>,
     <<"p", "r", "o", "c", "e", "e", "d">>,
     <<"l", "o", "o", "k", "s", " ", "g", "o", "o", "d">>,
     <<"m", "o", "v", "e", " ", "o", "n">>,
     <<"f", "i", "n", "a", "l">>,
     <<"s", "y", "n", "t", "h", "e", "s", "i", "s">>,
     <<"g", "e", "n", "e", "r", "a", "t", "e">>,
     <<"g", "o", " ", "a", "h", "e", "a", "d">>,
     <<"o", "k">>,
     <<"o", "k", "a", "y">>,
     <<"y", "e", "s">>,
     <<"g", "o", "o", "d">>,
     <<"g", "r", "e", "a", "t">>,
     <<"p", "e", "r", "f", "e", "c", "t">>}]

\* variant: only the message that is a signal, as a whole, continues
is_continue_signal_exact(phase, feedback) ==
  Strip(Lower(feedback)) \in continue_signals[phase]

\* any(signal in lower for signal in continue_signals)
is_continue_signal(phase, feedback) ==
  \E signal \in continue_signals[phase] :
    Contains(Strip(Lower(feedback)), signal)

ContinueTable ==
  [p \in DOMAIN continue_signals |->
     [m \in OrchMessages |-> is_continue_signal(p, OrchText[m])]]

\* variant: the expertise research is left out
NextPhase_skipping_expertise ==
  [COMPETITIVE |-> "SENTIMENT", EXPERTISE |-> "SENTIMENT",
   SENTIMENT |-> "SYNTHESIS"]

\* the phase whose research a continue-signal starts
NextPhase ==
  [COMPETITIVE |-> "EXPERTISE", EXPERTISE |-> "SENTIMENT",
   SENTIMENT |-> "SYNTHESIS"]

\* get_state: the state with the phase as its value
get_state(st) ==
  [topic |-> st.topic,
   phase |-> IF st.phase \in DOMAIN ResearchPhase
             THEN ResearchPhase[st.phase] ELSE st.phase,
   clarifications |-> st.clarifications,
   findings |-> st.findings,
   history |-> st.history,
   awaiting_feedback |-> st.awaiting_feedback]

\* variant: a saved empty history does not replace the history held
restore_state_keeping_history(st, saved_state) ==
  IF saved_state = <<>> THEN st
  ELSE [topic |-> Get(saved_state, "topic", ""),
        phase |-> LET p == PhaseOfValue(Get(saved_state, "phase", "initial"))
                  IN IF p = "ValueError" THEN "INITIAL" ELSE p,
        clarifications |-> Get(saved_state, "clarifications", <<>>),
        findings |-> Get(saved_state, "findings", <<>>),
        history |-> IF Get(saved_state, "history", <<>>) = <<>>
                    THEN st.history
                    ELSE Get(saved_state, "history", <<>>),
        awaiting_feedback |-> Get(saved_state, "awaiting_feedback", FALSE)]

\* restore_state: nothing for a falsy saved state; otherwise every field is
\* taken from the saved state, a missing one from its default
restore_state(st, saved_state) ==
  IF saved_state = <<>> THEN st
  ELSE [topic |-> Get(saved_state, "topic", ""),
        phase |-> LET p == PhaseOfValue(Get(saved_state, "phase", "initial"))
                  IN IF p = "ValueError" THEN "INITIAL" ELSE p,
        clarifications |-> Get(saved_state, "clarifications", <<>>),
        findings |-> Get(saved_state, "findings", <<>>),
        history |-> Get(saved_state, "history", <<>>),
        awaiting_feedback |-> Get(saved_state, "awaiting_feedback", FALSE)]

\* the phases entered, with the one entered now
Entered(o, phase) ==
  [o EXCEPT !.state.phase = phase, !.trail = Append(@, phase)]

\* process_message up to the deep_research call it reaches
process_message(o, message) ==
  LET phase == o.state.phase
      started(p, kind) == [p EXCEPT !.pc = "research", !.call = kind,
                                    !.message = message,
                                    !.messages = @ + 1]
  IN CASE phase = "CLARIFICATION" ->
            started(Entered([o EXCEPT !.state.clarifications =
                                        Put(@, "user_context", message)],
                            "COMPETITIVE"),
                    "competitive")
       [] phase \in DOMAIN NextPhase ->
            IF ContinueTable[phase][message]
            THEN started(Entered([o EXCEPT !.state.history =
                                             Append(@, ResearchPhase[phase])],
                                 NextPhase[phase]),
                         ResearchPhase[NextPhase[phase]])
            ELSE started(o, "refine")
       [] phase = "SYNTHESIS" -> started(o, "refine")
       [] OTHER ->
            started(Entered([o EXCEPT !.state.topic = message],
                            "CLARIFICATION"),
                    "clarification")

\* what a deep_research sub-call gives: text, no text, or an exception
ResearchOutcomes ==
  {"text", "empty", "raised"}

\* the rest of the step once the sub-call has ended
research_ends(o, outcome) ==
  LET text == IF outcome = "text" THEN <<o.call>> ELSE <<>>
      idle == [o EXCEPT !.pc = "idle", !.call = "None"]
      phase == ResearchPhase[o.state.phase]
  IN IF outcome = "raised" THEN idle
     ELSE CASE o.call = "clarification" ->
                 [idle EXCEPT !.state.clarifications =
                                 Put(@, "questions", text)]
            [] o.call = "refine" ->
                 IF text = <<>> THEN idle
                 ELSE [idle EXCEPT !.state.findings =
                         Put(@, phase,
                             Get(o.state.findings, phase, <<>>)
                               \o <<"---">> \o text)]
            [] o.call = "synthesis" ->
                 Entered([idle EXCEPT !.state.findings =
                                         Put(@, "synthesis", text)],
                         "COMPLETE")
            [] OTHER ->
                 [idle EXCEPT !.state.findings = Put(@, o.call, text)]

ProcessMessage ==
  /\ orch.pc = "idle"
  /\ orch.messages < MaxMessages
  /\ \E message \in OrchMessages : orch' = process_message(orch, message)
  /\ UNCHANGED <<turnvars, but_orch>>

ResearchEnds ==
  /\ orch.pc = "research"
  /\ \E outcome \in ResearchOutcomes : orch' = research_ends(orch, outcome)
  /\ UNCHANGED <<turnvars, but_orch>>

OrchNext ==
  \/ ProcessMessage
  \/ ResearchEnds

OrchSpec ==
  ClientInit /\ [][OrchNext]_vars

\* the order of the phases
PhaseChain ==
  <<"CLARIFICATION", "COMPETITIVE", "EXPERTISE", "SENTIMENT", "SYNTHESIS",
    "COMPLETE">>

\* C24 as claimed: the phase moves strictly along the chain; no phase is
\* skipped, none is entered again.
C24_StrictlyLinear ==
  /\ Len(orch.trail) <= Len(PhaseChain)
  /\ \A i \in 1..Len(orch.trail) : orch.trail[i] = PhaseChain[i]

\* C24 as amended: each phase entered is the successor of the one entered
\* before it, and the only successor of Complete is Clarification, entered
\* by the next message with that message as the new topic.
C24_LinearUntilRestart ==
  /\ orch.trail # <<>> => orch.trail[1] = "CLARIFICATION"
  /\ \A i \in 1..(Len(orch.trail) - 1) :
       \E k \in 1..Len(PhaseChain) :
         /\ orch.trail[i] = PhaseChain[k]
         /\ orch.trail[i + 1] = PhaseChain[(k % Len(PhaseChain)) + 1]
  /\ orch.trail # <<>> => orch.state.phase = orch.trail[Len(orch.trail)]
  /\ orch.trail = <<>> => orch.state.phase = "INITIAL"

\* the run reached Complete and the next message started over
C24_Witness ==
  /\ Len(orch.trail) = 7
  /\ orch.trail[6] = "COMPLETE"
  /\ orch.state.phase = "CLARIFICATION"
  /\ orch.state.topic = orch.message

\* the messages that contain a continue-signal of the phase: "ok" in every
\* phase, "go to phase 2" in the competitive phase only
ContinueMessages ==
  [COMPETITIVE |-> {"m_ok", "m_phase_2"}, EXPERTISE |-> {"m_ok"},
   SENTIMENT |-> {"m_ok"}]

\* a message arrives in one of the three research phases
FeedbackArrives ==
  /\ orch.pc = "idle"
  /\ orch'.pc = "research"
  /\ orch.state.phase \in DOMAIN ContinueMessages

PriorStates ==
  {InitialOrchestratorState,
   [topic |-> "m_ok", phase |-> "SENTIMENT",
    clarifications |-> Put(Put(<<>>, "questions", <<"clarification">>),
                           "user_context", "m_phase_2"),
    findings |-> Put(Put(<<>>, "competitive", <<"competitive">>),
                     "expertise", <<"expertise", "---", "refine">>),
    history |-> <<"competitive", "expertise">>,
    awaiting_feedback |-> TRUE]}

\* the state is saved and restored by an orchestrator holding prior
Reload ==
  /\ orch.pc = "idle"
  /\ orch.restores < 1
  /\ \E prior \in PriorStates :
       orch' = [orch EXCEPT
                  !.state = restore_state(prior, get_state(orch.state)),
                  !.restores = @ + 1]
  /\ UNCHANGED <<turnvars, but_orch>>

PersistNext ==
  \/ ProcessMessage
  \/ ResearchEnds
  \/ Reload

PersistSpec ==
  ClientInit /\ [][PersistNext]_vars

\* C26: restore_state(get_state(s)) gives a state equal to s in topic,
\* phase, clarifications, findings, history and awaiting_feedback, whatever
\* the restoring orchestrator held before.
C26_RestoreRoundTrip ==
  [][orch'.restores > orch.restores
       => orch'.state = orch.state]_vars

\* a state with a topic, answers, findings and history was restored
C26_Witness ==
  /\ orch.restores = 1
  /\ get_state(orch.state).phase = "sentiment"
  /\ orch.state.phase = "SENTIMENT"
  /\ orch.state.history = <<"competitive", "expertise">>
  /\ DOMAIN orch.state.findings = {"competitive", "expertise"}
  /\ DOMAIN orch.state.clarifications = {"questions", "user_context"}
  /\ orch.state.topic = "m_hvac"

(***************************************************************************)
(* services/mcp_research.py: adaptive_deep_research.  The findings of a    *)
(* pass are a sequence of text parts; out is the sequence of the events    *)
(* pass_start, pass_complete and research_complete the generator yields.   *)
(***************************************************************************)
\* depth_config: the passes of each depth
depth_config ==
  [quick |-> [searches |-> 20, passes |-> 1],
   standard |-> [searches |-> 40, passes |-> 2],
   comprehensive |-> [searches |-> 60, passes |-> 3],
   exhaustive |-> [searches |-> 100, passes |-> 4]]

Depths ==
  {"quick", "standard", "comprehensive", "exhaustive", "unknown"}

\* depth_config.get(depth, depth_config["comprehensive"])
ConfigOf(depth) ==
  IF depth \in DOMAIN depth_config THEN depth_config[depth]
  ELSE depth_config["comprehensive"]

PassesOf(depth) ==
  ConfigOf(depth).passes

\* mcp_research.py 231: "Buffer for thoroughness"
search_buffer ==
  10

\* mcp_research.py 226-231 and 71-77: the max_uses of the pass's web_search
\* tool, searches_this_pass + 10
max_uses(searches, passes) ==
  (searches \div passes) + search_buffer

\* the search counts a pass may report: a few, or all its tool allows
SearchCounts(limit) ==
  (0..MaxSearches) \cup {limit}

\* all_findings[-2:]
LastTwo(list) ==
  SubSeq(list, IF Len(list) > 2 THEN Len(list) - 1 ELSE 1, Len(list))

RECURSIVE Sum(_)
Sum(list) ==
  IF list = <<>> THEN 0 ELSE Head(list) + Sum(Tail(list))

\* variant: the total is the count of the last pass
add_searches_replacing(total_searches, reported) ==
  reported

\* total_searches += event.get("total_searches", 0)
add_searches(total_searches, reported) ==
  total_searches + reported

\* adaptive_deep_research is called with a depth
Research ==
  /\ deep.pc = "idle"
  /\ \E depth \in Depths :
       deep' = [deep EXCEPT !.pc = "pass_start", !.passes = PassesOf(depth),
                            !.max_searches = ConfigOf(depth).searches]
  /\ UNCHANGED <<turnvars, but_deep>>

\* the head of the loop: pass_start is yielded and the prompt of the pass
\* built, from the findings of the last two passes for every pass but the
\* first; after the last pass research_complete is yielded
PassStart ==
  /\ deep.pc = "pass_start"
  /\ IF deep.pass_num < deep.passes
     THEN deep' = [deep EXCEPT
                     !.pc = "deep_research",
                     !.pass_findings = <<>>,
                     !.limits = Append(@, max_uses(deep.max_searches,
                                                   deep.passes)),
                     !.given = Append(@, IF deep.pass_num = 0 THEN <<>>
                                         ELSE LastTwo(deep.all_findings)),
                     !.out = Append(@, [type |-> "pass_start",
                                        n |-> deep.pass_num + 1])]
     ELSE deep' = [deep EXCEPT
                     !.pc = "done",
                     !.out = Append(@, [type |-> "research_complete",
                                        n |-> deep.total_searches])]
  /\ UNCHANGED <<turnvars, but_deep>>

\* deep_research of the pass runs to its end: its text and its complete
\* event with the searches it counted, or an exception out of the stream
DeepResearch ==
  /\ deep.pc = "deep_research"
  /\ \/ \E has_text \in BOOLEAN,
            searches \in SearchCounts(deep.limits[Len(deep.limits)]) :
          deep' = [deep EXCEPT
                     !.pc = "pass_end",
                     !.pass_findings =
                        IF has_text THEN <<deep.pass_num + 1>> ELSE <<>>,
                     !.reported = Append(@, searches),
                     !.total_searches = add_searches(@, searches)]
     \/ deep' = [deep EXCEPT !.pc = "raised"]
  /\ UNCHANGED <<turnvars, but_deep>>

\* the foot of the loop: the findings are kept and pass_complete yielded
PassEnd ==
  /\ deep.pc = "pass_end"
  /\ deep' = [deep EXCEPT
                !.pc = "pass_start",
                !.all_findings = Append(@, deep.pass_findings),
                !.pass_num = @ + 1,
                !.out = Append(@, [type |-> "pass_complete",
                                   n |-> deep.total_searches])]
  /\ UNCHANGED <<turnvars, but_deep>>

DeepNext ==
  \/ Research
  \/ PassStart
  \/ DeepResearch
  \/ PassEnd

DeepSpec ==
  ClientInit /\ [][DeepNext]_vars

\* the searches_so_far of the pass_complete events yielded so far
Surfaced ==
  LET done == SelectSeq(deep.out, LAMBDA e : e.type = "pass_complete")
  IN [i \in 1..Len(done) |-> done[i].n]

\* C27: a deep research of p passes runs exactly p rounds one after the
\* other; a round after the first starts once the round before it is
\* complete and is given that round's findings; the search total surfaced
\* after each pass is the sum of the searches the completed passes reported
\* and never decreases.
C27_PassesAccumulate ==
  /\ deep.pc = "done"
       => /\ Len(deep.all_findings) = deep.passes
          /\ Len(Surfaced) = deep.passes
          /\ deep.out[Len(deep.out)] =
               [type |-> "research_complete", n |-> Sum(deep.reported)]
  /\ \A i \in 1..Len(deep.out) :
       deep.out[i].type # "research_complete"
         => deep.out[i] = [type |-> IF i % 2 = 1 THEN "pass_start"
                                    ELSE "pass_complete",
                           n |-> IF i % 2 = 1 THEN (i + 1) \div 2
                                 ELSE Surfaced[i \div 2]]
  /\ \A k \in 2..Len(deep.given) :
       /\ Len(deep.all_findings) >= k - 1
       /\ deep.given[k] # <<>>
       /\ deep.given[k][Len(deep.given[k])] = deep.all_findings[k - 1]
  /\ \A k \in 1..Len(Surfaced) :
       /\ Surfaced[k] = Sum(SubSeq(deep.reported, 1, k))
       /\ k > 1 => Surfaced[k] >= Surfaced[k - 1]

\* three passes done, each with findings and searches of its own
C27_Witness ==
  /\ deep.pc = "done"
  /\ deep.passes = 3
  /\ deep.all_findings = <<<<1>>, <<2>>, <<3>>>>
  /\ deep.reported = <<2, 1, 2>>
  /\ Surfaced = <<2, 3, 5>>
  /\ deep.given = <<<<>>, <<<<1>>>>, <<<<1>>, <<2>>>>>>

(***************************************************************************)
(* route_after_reasoning as a function of the state it is given: every     *)
(* value of the hint, with and without a tool call.                        *)
(***************************************************************************)
\* values of next_node; "None" stands for a state without the key
Hints ==
  {"tool_executor", "response", "reasoning", "reflection", "clarification",
   "end", "None"}

RouterStates ==
  {[InitialState EXCEPT !.next_node = IF hint = "None" THEN "response"
                                      ELSE hint,
                        !.current_tool_call = tool_call,
                        !.error = error,
                        !.tool_call_count = count,
                        !.messages = <<"user", "ai">>] :
     hint \in Hints,
     tool_call \in {None} \cup {Some([name |-> n]) : n \in ToolNames},
     error \in BOOLEAN,
     count \in 0..2}

RouterInit ==
  /\ state \in RouterStates
  /\ db = [messages |-> <<"user">>, row |-> EmptyRow]
  /\ session_cache = None
  /\ loaded = EmptyRow
  /\ request_message = "m_hvac"
  /\ pc = "after_reasoning"
  /\ steps = 1
  /\ events = <<"entry", "reasoning">>
  /\ last_route = "reasoning"
  /\ tracked = NoTracked
  /\ final_response = FALSE
  /\ turns = 1
  /\ successes = 0
  /\ completion = "None"
  /\ stream = NoStream
  /\ flight = NoFlight
  /\ client = NoClient
  /\ overlap = NoOverlap
  /\ edit = NoEdit
  /\ progress = NoProgress
  /\ serp = NoSerp
  /\ fanout = NoFanout
  /\ orch = NoOrch
  /\ deep = NoDeep

\* create_research_graph: the conditional edge out of the reasoning node
RouteAfterReasoning ==
  /\ pc = "after_reasoning"
  /\ Route(route_after_reasoning(state))
  /\ UNCHANGED <<db, session_cache, loaded, request_message, state, events,
                 tracked, final_response, turns, successes, completion>>
  /\ UNCHANGED servicevars

RouterNext ==
  RouteAfterReasoning

RouterSpec ==
  RouterInit /\ [][RouterNext]_vars

\* C28: after Reasoning, ToolExecutor is entered only when the hint is
\* tool_executor and the state holds a tool call; any other hint, and a
\* missing tool call, lead to Response.
C28_HintNotTrusted ==
  pc # "after_reasoning"
    => /\ pc = last_route
       /\ pc = IF state.next_node = "tool_executor"
                  /\ state.current_tool_call # None
               THEN "tool_executor" ELSE "response"

\* the hint named the tool executor but no tool call was there
C28_Witness ==
  /\ pc = "response"
  /\ state.next_node = "tool_executor"
  /\ state.current_tool_call = None

(***************************************************************************)
(* _update_research_data applied to one accumulator, result after result,  *)
(* as reflection_node applies it to the entry of a session.  events holds  *)
(* the results merged so far.                                              *)
(***************************************************************************)
MergeTools ==
  {"search_google", "discover_courses_with_rankings",
   "search_course_rankings", "search_reddit"}

MergeInit ==
  /\ state = InitialState
  /\ db = [messages |-> <<"user">>, row |-> EmptyRow]
  /\ session_cache = None
  /\ loaded = EmptyRow
  /\ request_message = "m_hvac"
  /\ pc = "reflection"
  /\ steps = 0
  /\ events = <<>>
  /\ last_route = "none"
  /\ tracked = NoTracked
  /\ final_response = FALSE
  /\ turns = 1
  /\ successes = 0
  /\ completion = "None"
  /\ stream = NoStream
  /\ flight = NoFlight
  /\ client = NoClient
  /\ overlap = NoOverlap
  /\ edit = NoEdit
  /\ progress = NoProgress
  /\ serp = NoSerp
  /\ fanout = NoFanout
  /\ orch = NoOrch
  /\ deep = NoDeep

\* reflection.py 98-103: one successful tool result is merged
MergeStep ==
  /\ Len(events) < MaxMergeSteps
  /\ \E tool_name \in MergeTools :
       \E tool_data \in ToolValues(tool_name) :
         /\ state' = [state EXCEPT
                        !.research_data =
                           update_research_data(@, tool_name, tool_data)]
         /\ events' = Append(events, [tool_name |-> tool_name,
                                      data |-> tool_data])
  /\ UNCHANGED <<db, session_cache, loaded, request_message, pc, steps,
                 last_route, tracked, final_response, turns, successes,
                 completion>>
  /\ UNCHANGED servicevars

MergeNext ==
  MergeStep

MergeSpec ==
  MergeInit /\ [][MergeNext]_vars

\* no item occurs twice in the list
NoRepeats(list) ==
  \A i, j \in 1..Len(list) : list[i] = list[j] => i = j

NoRepeatedItems(research_data) ==
  \A c \in ListCategories : NoRepeats(research_data[c])

\* the result merged in this step is one that was merged before
MergedAgain ==
  /\ Len(events') = Len(events) + 1
  /\ \E i \in 1..Len(events) : events[i] = events'[Len(events')]

\* C29: merging a tool result whose items are already in research_data
\* (the same tool called again with the same output) leaves every category
\* without repeated items.
C29_MergeNeverDuplicates ==
  [][MergedAgain /\ NoRepeatedItems(state.research_data)
       => NoRepeatedItems(state'.research_data)]_vars

\* a web search result is merged in this step
SearchMerged ==
  /\ Len(events') = Len(events) + 1
  /\ events'[Len(events')].tool_name = "search_google"

\* C30: merging a web search result appends each returned item that is not
\* yet among the competitors and no other; merging the same list again
\* changes nothing, and no other category changes.
C30_SearchMergeIdempotent ==
  [][SearchMerged
       => LET old == state.research_data
              new == state'.research_data
              results == events'[Len(events')].data.items
              had(x) == \E i \in 1..Len(old.competitors) :
                          old.competitors[i] = x
          IN /\ [new EXCEPT !.competitors = old.competitors] = old
             /\ SubSeq(new.competitors, 1, Len(old.competitors))
                  = old.competitors
             /\ \A i \in 1..Len(results) :
                  \E k \in 1..Len(new.competitors) :
                    new.competitors[k] = results[i]
             /\ \A k \in (Len(old.competitors) + 1)..Len(new.competitors) :
                  /\ ~had(new.competitors[k])
                  /\ \E i \in 1..Len(results) :
                       results[i] = new.competitors[k]
             /\ NoRepeats(old.competitors) => NoRepeats(new.competitors)
             /\ (\A i \in 1..Len(results) : had(results[i])) => new = old
             /\ update_research_data(new, "search_google",
                                     events'[Len(events')].data) = new]_vars

\* the same search result was merged twice, with another merge in between
C30_Witness ==
  /\ Len(events) = 3
  /\ events[1].tool_name = "search_google"
  /\ events[1].data.items = <<1, 2>>
  /\ events[3] = events[1]
  /\ events[2].tool_name = "search_reddit"
  /\ state.research_data.competitors = <<1, 2>>
  /\ state.research_data.reddit_posts = <<1>>

(***************************************************************************)
(* The confirmed plan over the later turns of a session.                   *)
(***************************************************************************)
\* the plan is there and confirmed
Confirmed(research_plan) ==
  research_plan # None /\ research_plan[1].is_confirmed

\* C31: once the plan is confirmed, no step of a later turn changes its
\* selection while it stays confirmed, neither in the graph state of a turn
\* nor in the stored session: a change needs a plan that was re-opened or
\* reset.
C31_ConfirmedPlanFrozen ==
  [][/\ Confirmed(db.row.research_plan) /\ Confirmed(db'.row.research_plan)
          => db'.row.research_plan[1].selected_competitors
               = db.row.research_plan[1].selected_competitors
     /\ Confirmed(state.research_plan) /\ Confirmed(state'.research_plan)
          => state'.research_plan[1].selected_competitors
               = state.research_plan[1].selected_competitors
     /\ Confirmed(loaded.research_plan) /\ pc \in {"end", "error"}
          => db'.row.research_plan = loaded.research_plan]_vars

\* a turn loaded with a confirmed plan carried the feedback message "ok but
\* remove provider X", ran a tool and ends with the plan it was loaded with
C31_Witness ==
  /\ pc = "end"
  /\ Confirmed(loaded.research_plan)
  /\ request_message = "m_ok_remove"
  /\ state.research_plan = loaded.research_plan
  /\ \E i \in 1..Len(events) : events[i] = "tool_executor"

(***************************************************************************)
(* Two sessions served at the same time: the progress callback of          *)
(* course_discovery.py is one module-level name, set by every turn.        *)
(***************************************************************************)
\* course_discovery.py 10-13
set_progress_callback(current, callback) ==
  callback

\* chat.py 143-150: the turn creates its queue and installs its callback
OpenStream(s) ==
  /\ progress.at[s] = "idle"
  /\ progress' = [progress EXCEPT
                    !.at[s] = "running",
                    !.queue[s] = <<>>,
                    !.callback = set_progress_callback(@, s)]
  /\ UNCHANGED <<turnvars, but_progress>>

\* course_discovery.py 15-20: the tool running for session s reports a
\* message to the callback that is set at that moment
ReportProgress(s) ==
  /\ progress.at[s] = "running"
  /\ progress.reported[s] < MaxReports
  /\ LET message == [by |-> s, n |-> progress.reported[s] + 1]
     IN progress' =
          IF progress.callback # "None"
          THEN [progress EXCEPT
                  !.reported[s] = @ + 1,
                  !.queue[progress.callback] = Append(@, message)]
          ELSE [progress EXCEPT
                  !.reported[s] = @ + 1,
                  !.lost = Append(@, message)]
  /\ UNCHANGED <<turnvars, but_progress>>

\* chat.py 193-200, 232-234: the keepalive task of the session empties its
\* queue and the consumer sends the messages on the session's stream
DrainProgress(s) ==
  /\ progress.at[s] = "running"
  /\ progress.queue[s] # <<>>
  /\ progress' = [progress EXCEPT
                    !.sent[s] = @ \o progress.queue[s],
                    !.queue[s] = <<>>]
  /\ UNCHANGED <<turnvars, but_progress>>

\* chat.py 186-188: the graph of the session's turn is complete
GraphComplete(s) ==
  /\ progress.at[s] = "running"
  /\ progress' = [progress EXCEPT !.at[s] = "complete"]
  /\ UNCHANGED <<turnvars, but_progress>>

\* chat.py 338-347: the cleanup of the turn clears the callback
CloseStream(s) ==
  /\ progress.at[s] = "complete"
  /\ progress' = [progress EXCEPT
                    !.at[s] = "closed",
                    !.callback = set_progress_callback(@, "None")]
  /\ UNCHANGED <<turnvars, but_progress>>

SessionsNext ==
  \E s \in Sessions :
    \/ OpenStream(s)
    \/ ReportProgress(s)
    \/ DrainProgress(s)
    \/ GraphComplete(s)
    \/ CloseStream(s)

SessionsSpec ==
  ClientInit /\ [][SessionsNext]_vars

\* C32: with turns of two sessions running at the same time, every progress
\* message of a tool running for a session is queued for and sent on that
\* session's stream only, and none is dropped because the turn of the other
\* session ended.
C32_ProgressStaysInSession ==
  /\ \A s \in Sessions :
       /\ \A i \in 1..Len(progress.queue[s]) : progress.queue[s][i].by = s
       /\ \A i \in 1..Len(progress.sent[s]) : progress.sent[s][i].by = s
  /\ progress.lost = <<>>

\* the progress messages sent on the stream
SentProgress ==
  SelectSeq(stream.out, LAMBDA e : e = Event("thinking", 0))

\* C33: every progress message a tool pushed during the turn has been sent
\* on the stream when the stream has sent its terminal event, and none is
\* left in the progress queue or in the event queue.
C33_ProgressDelivered ==
  stream.consumer = "closed"
    => /\ Len(SentProgress) = stream.reported
       /\ stream.progress_queue = 0
       /\ \A i \in 1..Len(stream.queue) : stream.queue[i].type # "progress"

\* the turn has entered ToolExecutor
ToolExecutorEntered ==
  \E i \in 1..Len(events) : events[i] = "tool_executor"

\* C34: over the turns of a session that starts empty, ToolExecutor is
\* entered only in a turn whose plan is confirmed: the turn was loaded with
\* a confirmed plan or the user's message confirmed the plan in this turn.
C34_NoToolBeforeApproval ==
  /\ pc = "tool_executor" => Confirmed(state.research_plan)
  /\ ToolExecutorEntered
       => /\ Confirmed(state.research_plan)
          /\ \/ Confirmed(loaded.research_plan)
             \/ /\ ConfirmTable[request_message]
                /\ \E i \in 1..Len(events) : events[i] = "clarification"

\* the user's "ok" confirmed the plan and the same turn ran a tool
C34_Witness ==
  /\ ToolExecutorEntered
  /\ ~Confirmed(loaded.research_plan)
  /\ loaded.research_plan # None
  /\ request_message = "m_ok"
  /\ Confirmed(state.research_plan)

(***************************************************************************)
(* clarification.py: _update_plan_from_feedback.  The completion answers   *)
(* with JSON; an item of a new_* array is a JSON object (kind "dict", with *)
(* or without a name) or some other JSON value (kind "str"), on which      *)
(* .get raises.                                                            *)
(***************************************************************************)
Item(kind, name) ==
  [kind |-> kind, name |-> name]

\* the new_competitors arrays of the explored answers
NewCompetitors ==
  {<<>>, <<Item("dict", "p3")>>, <<Item("dict", "p1")>>,
   <<Item("str", "None")>>, <<Item("dict", "None")>>,
   <<Item("dict", "p3"), Item("str", "None")>>,
   <<Item("str", "None"), Item("dict", "p3")>>}

NewCertifications ==
  {<<>>, <<Item("dict", "c2")>>, <<Item("str", "None")>>}

NewAudiences ==
  {<<>>, <<Item("str", "None")>>}

\* the selections of an answer: the three keys present, or all missing
AnswerSelections ==
  {None,
   Some([selected_competitors |-> <<"p1">>,
         selected_certifications |-> <<>>,
         selected_audience |-> "the real starters"])}

\* what llm.ainvoke and json.loads make of the edit request
Answers ==
  {[kind |-> "api_error"], [kind |-> "not_json"]}
    \cup {[kind |-> "json", new_competitors |-> nc,
           new_certifications |-> nt, new_audiences |-> na,
           selections |-> sel] :
            nc \in NewCompetitors, nt \in NewCertifications,
            na \in NewAudiences, sel \in AnswerSelections}

\* the names in the list
Names(list) ==
  {list[i] : i \in 1..Len(list)}

\* clarification.py 500-538: one of the three loops; the names present
\* before the loop are computed once, the items are appended in place, and
\* an item that is no object raises at its .get
RECURSIVE add_new_items(_, _, _)
add_new_items(list, existing_names, new_items) ==
  IF new_items = <<>> THEN [list |-> list, raised |-> FALSE]
  ELSE LET item == Head(new_items)
       IN IF item.kind # "dict" THEN [list |-> list, raised |-> TRUE]
          ELSE add_new_items(
                 IF item.name # "None" /\ item.name \notin existing_names
                 THEN Append(list, item.name) ELSE list,
                 existing_names, Tail(new_items))

\* clarification.py 489-552: the plan the function returns and whether its
\* except clause was entered
update_plan_from_feedback(plan, answer) ==
  IF answer.kind # "json" THEN [plan |-> plan, raised |-> TRUE]
  ELSE
  LET competitors == add_new_items(plan.competitors, Names(plan.competitors),
                                   answer.new_competitors)
      plan1 == [plan EXCEPT !.competitors = competitors.list]
      certifications == add_new_items(plan.certifications,
                                      Names(plan.certifications),
                                      answer.new_certifications)
      plan2 == [plan1 EXCEPT !.certifications = certifications.list]
      audiences == add_new_items(plan.target_audiences,
                                 Names(plan.target_audiences),
                                 answer.new_audiences)
      plan3 == [plan2 EXCEPT !.target_audiences = audiences.list]
  IN IF competitors.raised THEN [plan |-> plan1, raised |-> TRUE]
     ELSE IF certifications.raised THEN [plan |-> plan2, raised |-> TRUE]
     ELSE IF audiences.raised THEN [plan |-> plan3, raised |-> TRUE]
     ELSE [plan |->
             IF answer.selections = None THEN plan3
             ELSE [plan3 EXCEPT
                     !.selected_competitors =
                        answer.selections[1].selected_competitors,
                     !.selected_certifications =
                        answer.selections[1].selected_certifications,
                     !.selected_audience =
                        answer.selections[1].selected_audience],
           raised |-> FALSE]

\* clarification.py 206-226: the user gave feedback and the plan is edited
UpdatePlan ==
  /\ edit.edits < MaxEdits
  /\ \E answer \in Answers :
       LET out == update_plan_from_feedback(edit.plan, answer)
       IN edit' = [plan |-> out.plan, edits |-> edit.edits + 1,
                   before |-> edit.plan, answer |-> answer,
                   raised |-> out.raised]
  /\ UNCHANGED <<turnvars, but_edit>>

EditNext ==
  UpdatePlan

EditSpec ==
  ClientInit /\ [][EditNext]_vars

\* C35: a plan edit is all-or-nothing: when the edit fails (completion
\* error, unparsable output, malformed new item) the returned plan equals
\* the plan before the edit in its competitors, certifications, audiences
\* and selections.
C35_EditAllOrNothing ==
  edit.raised => edit.plan = edit.before

(***************************************************************************)
(* Two overlapping requests of one session, from loading the row to        *)
(* saving it (chat.py 83-140, 236-248, 361-369).                           *)
(***************************************************************************)
\* the columns a node of a turn may write anew
WrittenColumns ==
  {"research_plan", "research_data"}

\* the value a node of turn t writes
Written(t, column) ==
  IF column = "research_plan"
  THEN Some(ResearchPlan("t_hvac", {"p1"}, t = "b"))
  ELSE Some([EmptyResearchData EXCEPT
               !.competitors = IF t = "a" THEN <<1>> ELSE <<2>>])

\* chat.py 83-140: the request loads the row of the session
LoadSession(t) ==
  /\ overlap.at[t] = "idle"
  /\ overlap' = [overlap EXCEPT !.at[t] = "entry",
                                !.db_session[t] = overlap.row]
  /\ UNCHANGED <<turnvars, but_overlap>>

\* chat.py 116-134, 241-248: the entry node passes the state built from the
\* loaded row through, and the consumer tracks the keys of its output
EntryOutput(t) ==
  /\ overlap.at[t] = "entry"
  /\ LET row == overlap.db_session[t]
     IN overlap' =
          [overlap EXCEPT
             !.at[t] = "running",
             !.new[t] =
                [research_plan |-> row.research_plan,
                 clarification |-> row.clarification_state,
                 research_data |-> IF row.research_data # None
                                   THEN row.research_data
                                   ELSE Some(EmptyResearchData),
                 industry |-> row.industry]]
  /\ UNCHANGED <<turnvars, but_overlap>>

\* chat.py 241-248: a later node of the turn outputs a new value
NodeOutput(t) ==
  /\ overlap.at[t] = "running"
  /\ \E column \in WrittenColumns \ overlap.produced[t] :
       overlap' = [overlap EXCEPT
                     !.produced[t] = @ \cup {column},
                     !.new[t][column] = Written(t, column)]
  /\ UNCHANGED <<turnvars, but_overlap>>

\* chat.py 361-369: the turn saves
SaveSession(t) ==
  /\ overlap.at[t] = "running"
  /\ overlap' = [overlap EXCEPT
                   !.at[t] = "done",
                   !.row = update_session_state(overlap.new[t],
                                                overlap.db_session[t],
                                                overlap.row)]
  /\ UNCHANGED <<turnvars, but_overlap>>

OverlapNext ==
  \E t \in Turns :
    \/ LoadSession(t)
    \/ EntryOutput(t)
    \/ NodeOutput(t)
    \/ SaveSession(t)

OverlapSpec ==
  ClientInit /\ [][OverlapNext]_vars

\* C36: when two turns of a session overlap, a turn that produced no new
\* research_plan or research_data does not write back the value it loaded
\* over a newer value saved by the other turn: its save leaves the column as
\* the other turn stored it.
C36_NoStaleWriteBack ==
  [][\A t \in Turns :
       overlap.at[t] = "running" /\ overlap'.at[t] = "done"
         => /\ ("research_plan" \notin overlap.produced[t]
                /\ overlap.row.research_plan
                     # overlap.db_session[t].research_plan)
                 => overlap'.row.research_plan = overlap.row.research_plan
            /\ ("research_data" \notin overlap.produced[t]
                /\ overlap.row.research_data
                     # overlap.db_session[t].research_data)
                 => overlap'.row.research_data = overlap.row.research_data]_vars

\* Clarification is about to force a fresh discovery for a new topic: the
\* session has a plan and the message of the turn asks for another topic
FreshDiscoveryForced ==
  /\ pc = "clarification"
  /\ state.research_plan # None
  /\ UserMessageCount(state.messages) > 1
  /\ NewTopicTable[request_message][state.research_plan[1].industry]

\* C37: when Clarification forces a fresh discovery because a new topic was
\* detected, the discovery is run for the topic of the new user message: the
\* new plan's industry and the state's industry are the topic of that
\* message, not the industry stored for the previous topic.
C37_FreshDiscoveryTopic ==
  [][FreshDiscoveryForced
       => /\ state'.research_plan # None
          /\ state'.research_plan[1].industry
               = extract_clean_topic[request_message]
          /\ state'.industry = extract_clean_topic[request_message]]_vars

\* a message arrives at an orchestrator whose research is complete
StartsFresh ==
  /\ orch.pc = "idle"
  /\ orch.state.phase = "COMPLETE"
  /\ orch'.pc = "research"

\* C38: a message received after the research is Complete starts a new run
\* with the message as topic and with no findings, history or clarifications
\* of the previous topic.
C38_FreshRunIsEmpty ==
  [][StartsFresh
       => /\ orch'.state.phase = "CLARIFICATION"
          /\ orch'.state.topic = orch'.message
          /\ orch'.state.findings = InitialOrchestratorState.findings
          /\ orch'.state.history = InitialOrchestratorState.history
          /\ orch'.state.clarifications
               = InitialOrchestratorState.clarifications]_vars

\* C39: for every depth the per-pass search limits add up to no more than
\* the max_searches announced in the research_config event, and so does the
\* total of the searches reported.
C39_WithinAnnouncedBudget ==
  deep.pc # "idle"
    => /\ Sum(deep.limits) <= deep.max_searches
       /\ deep.total_searches <= deep.max_searches

(***************************************************************************)
(* research_orchestrator.py 1043-1045: one orchestrator instance serves    *)
(* every session; a session is resumed by restore_state with what was      *)
(* saved for it.                                                           *)
(***************************************************************************)
\* what is saved for the session served next: nothing (a session that has
\* no state yet), or the state of a session in its Expertise phase
SavedStates ==
  {<<>>,
   get_state([topic |-> "m_hvac", phase |-> "EXPERTISE",
              clarifications |-> Put(<<>>, "user_context", "m_ok"),
              findings |-> Put(<<>>, "competitive", <<"competitive">>),
              history |-> <<"competitive">>,
              awaiting_feedback |-> FALSE])}

\* the shared instance is handed the saved state of the next session
ServeSession ==
  /\ orch.pc = "idle"
  /\ orch.restores < 1
  /\ \E saved_state \in SavedStates :
       orch' = [orch EXCEPT
                  !.state = restore_state(@, saved_state),
                  !.restores = @ + 1,
                  !.restored = IF saved_state = <<>> THEN "empty"
                               ELSE "saved"]
  /\ UNCHANGED <<turnvars, but_orch>>

SharedNext ==
  \/ ProcessMessage
  \/ ResearchEnds
  \/ ServeSession

SharedSpec ==
  ClientInit /\ [][SharedNext]_vars

\* C40: after restore_state is called with the saved state of a session
\* that has none yet, the shared orchestrator is in the initial state, not in
\* the state left by the session served before.
C40_NewSessionStartsInitial ==
  [][orch'.restores > orch.restores /\ orch'.restored = "empty"
       => orch'.state = InitialOrchestratorState]_vars
====
